---- MODULE Spec2Model ----
(***************************************************************************)
(* A model of the routix workflow engine: the lexically scoped             *)
(* environment, the expression evaluator, and the workflow executor that   *)
(* threads case records through score, match, filter and sort phases,      *)
(* driven through the CoreEngine facade.                                   *)
(*                                                                         *)
(* Strings that the program orders or converts (record fields, string      *)
(* values, the decimal form of numbers) are sequences of byte codes, so    *)
(* that comparison and to_string are computed and not assumed.  Names      *)
(* (identifiers, map keys, error texts) are only ever tested for equality  *)
(* and stay TLA+ strings.                                                  *)
(***************************************************************************)
EXTENDS Integers, Sequences, FiniteSets, TLC

(***************************************************************************)
(* Bounds of the model.                                                    *)
(***************************************************************************)
\* the most records the host adds to the engine
MaxCases == 2
\* the most phases of one workflow
MaxPhases == 2
\* the most execute_workflow calls of one behaviour
MaxRuns == 1
\* the most enter_scope / exit_scope / set_variable / register_function / reset
\* calls of one behaviour
MaxHostOps == 2
\* the most workflows of one execute_workflows or execute_program call
MaxWorkflows == 2
\* the most records of the sort specification
MaxSortCases == 3

(***************************************************************************)
(* Strings as byte sequences.                                              *)
(***************************************************************************)
Range(f) == { f[i] : i \in DOMAIN f }

\* i64::to_string / i32::to_string: the decimal digits, '-' first if negative
RECURSIVE ToDecimal(_)
ToDecimal(n) ==
    IF n < 0 THEN <<45>> \o ToDecimal(-n)
    ELSE IF n < 10 THEN <<48 + n>>
    ELSE ToDecimal(n \div 10) \o <<48 + (n % 10)>>

\* Ord::cmp on integers: -1 (Less), 0 (Equal), 1 (Greater)
IntCmp(a, b) == IF a < b THEN -1 ELSE IF a > b THEN 1 ELSE 0

\* Ord::cmp on String: lexicographic by bytes
RECURSIVE StrCmp(_, _)
StrCmp(a, b) ==
    IF a = <<>> THEN (IF b = <<>> THEN 0 ELSE -1)
    ELSE IF b = <<>> THEN 1
    ELSE IF Head(a) # Head(b) THEN IntCmp(Head(a), Head(b))
    ELSE StrCmp(Tail(a), Tail(b))

\* str::contains(substr)
StrContains(s, sub) ==
    \E i \in 1..(Len(s) + 1) :
        /\ i + Len(sub) - 1 <= Len(s)
        /\ \A j \in 1..Len(sub) : s[i + j - 1] = sub[j]

\* string literals used by the records and the rules
S_empty == <<>>
S_open == <<111, 112, 101, 110>>
S_closed == <<99, 108, 111, 115, 101, 100>>
S_bug == <<98, 117, 103>>
S_feature == <<102, 101, 97, 116, 117, 114, 101>>
S_10 == <<49, 48>>
S_true == <<116, 114, 117, 101>>
S_false == <<102, 97, 108, 115, 101>>
S_null == <<110, 117, 108, 108>>
S_list == <<108, 105, 115, 116>>
S_map == <<109, 97, 112>>
S_builtin_function == <<98, 117, 105, 108, 116, 105, 110, 95, 102, 117, 110, 99, 116, 105, 111, 110>>
S_user_function_ == <<117, 115, 101, 114, 95, 102, 117, 110, 99, 116, 105, 111, 110, 95>>

(***************************************************************************)
(* Runtime values (ast.rs, enum Value).  A value is a record whose field k *)
(* is the variant and whose field v is the payload: an integer, a byte     *)
(* string, a boolean, a sequence of values, a function from keys to        *)
(* values, the built-in's name, or the index of the function definition    *)
(* in FunctionTable.                                                       *)
(***************************************************************************)
Number(n) == [k |-> "Number", v |-> n]
String(s) == [k |-> "String", v |-> s]
Bool(b) == [k |-> "Bool", v |-> b]
List(l) == [k |-> "List", v |-> l]
Null == [k |-> "Null", v |-> 0]
Map(m) == [k |-> "Map", v |-> m]
BuiltinFunction(name) == [k |-> "BuiltinFunction", v |-> name]
UserFunction(f) == [k |-> "UserFunction", v |-> f]

\* Option<Value>
Some(v) == [some |-> TRUE, v |-> v]
None == [some |-> FALSE, v |-> Null]

\* a HashMap as a function: insert or overwrite one key
MapInsert(m, key, v) ==
    [x \in (DOMAIN m) \cup {key} |-> IF x = key THEN v ELSE m[x]]
EmptyMap == <<>>

(***************************************************************************)
(* Environment (environment.rs): a stack of frames, innermost last.        *)
(***************************************************************************)
EnterScope(env) == Append(env, EmptyMap)

ExitScope(env) == IF env = <<>> THEN env ELSE SubSeq(env, 1, Len(env) - 1)

RECURSIVE Lookup(_, _)
Lookup(env, name) ==
    IF env = <<>> THEN None
    ELSE IF name \in DOMAIN env[Len(env)] THEN Some(env[Len(env)][name])
    ELSE Lookup(SubSeq(env, 1, Len(env) - 1), name)

\* a variant of Insert that binds in the outermost frame
Insert_root(env, name, value) ==
    IF env = <<>> THEN env
    ELSE [env EXCEPT ![1] = MapInsert(env[1], name, value)]

Insert(env, name, value) ==
    IF env = <<>> THEN env
    ELSE [env EXCEPT ![Len(env)] = MapInsert(env[Len(env)], name, value)]

\* the innermost frame that holds name, 0 if none does
InnermostWith(env, name) ==
    LET holders == { i \in 1..Len(env) : name \in DOMAIN env[i] }
    IN  IF holders = {} THEN 0
        ELSE CHOOSE i \in holders : \A j \in holders : j <= i

Set(env, name, value) ==
    LET i == InnermostWith(env, name)
    IN  IF i # 0 THEN [env EXCEPT ![i] = MapInsert(env[i], name, value)]
        ELSE Insert(env, name, value)

(***************************************************************************)
(* Abstract syntax (ast.rs).  A FunctionDef lives in FunctionTable and is  *)
(* named by its index there.                                               *)
(***************************************************************************)
ExprNumber(n) == [t |-> "Number", n |-> n]
ExprString(s) == [t |-> "String", s |-> s]
ExprBool(b) == [t |-> "Bool", b |-> b]
Ident(name) == [t |-> "Ident", name |-> name]
ExprList(exprs) == [t |-> "List", exprs |-> exprs]
BinaryOp(left, op, right) == [t |-> "BinaryOp", left |-> left, op |-> op, right |-> right]
UnaryOp(op, expr) == [t |-> "UnaryOp", op |-> op, expr |-> expr]
FunctionCall(name, args) == [t |-> "FunctionCall", name |-> name, args |-> args]
MemberAccess(object, property) == [t |-> "MemberAccess", object |-> object, property |-> property]

StmtLet(name, value) == [t |-> "Let", name |-> name, value |-> value]
StmtAssign(name, value) == [t |-> "Assign", name |-> name, value |-> value]
\* else_body is an Option: << >> for None, <<statements>> for Some(statements)
StmtIf(condition, then_body, else_body) ==
    [t |-> "If", condition |-> condition, then_body |-> then_body, else_body |-> else_body]
StmtReturn(expr) == [t |-> "Return", expr |-> expr]
StmtExpression(expr) == [t |-> "Expression", expr |-> expr]

BodyExpression(expr) == [t |-> "Expression", expr |-> expr]
BodyBlock(statements) == [t |-> "Block", statements |-> statements]
\* name_bytes is the name as the bytes that format! writes
FunctionDef(name, name_bytes, params, body) ==
    [name |-> name, name_bytes |-> name_bytes, params |-> params, body |-> body]

\* the function definitions a host registers
FunctionTable ==
    << \* function double(x) = x * 2
       FunctionDef("double", <<100, 111, 117, 98, 108, 101>>, <<"x">>,
           BodyExpression(BinaryOp(Ident("x"), "Mul", ExprNumber(2)))),
       \* function bump(score) { let priority = score + 1  return priority }
       FunctionDef("bump", <<98, 117, 109, 112>>, <<"score">>,
           BodyBlock(<< StmtLet("priority", BinaryOp(Ident("score"), "Add", ExprNumber(1))),
                        StmtReturn(Ident("priority")) >>)),
       \* function adjust(x) { y = x + 1  if y > 5 { y = 5 } else { y = 0 }  y }
       FunctionDef("adjust", <<97, 100, 106, 117, 115, 116>>, <<"x">>,
           BodyBlock(<< StmtAssign("y", BinaryOp(Ident("x"), "Add", ExprNumber(1))),
                        StmtIf(BinaryOp(Ident("y"), "Gt", ExprNumber(5)),
                               << StmtAssign("y", ExprNumber(5)) >>,
                               << << StmtAssign("y", ExprNumber(0)) >> >>),
                        StmtExpression(Ident("y")) >>)),
       \* function clamp(x) { if x > 5 { return 5 }  return x }
       FunctionDef("clamp", <<99, 108, 97, 109, 112>>, <<"x">>,
           BodyBlock(<< StmtIf(BinaryOp(Ident("x"), "Gt", ExprNumber(5)),
                               << StmtReturn(ExprNumber(5)) >>, << >>),
                        StmtReturn(Ident("x")) >>)),
       \* function pick(x) { if x > 5 { return 1 } else { return 2 }  3 }
       FunctionDef("pick", <<112, 105, 99, 107>>, <<"x">>,
           BodyBlock(<< StmtIf(BinaryOp(Ident("x"), "Gt", ExprNumber(5)),
                               << StmtReturn(ExprNumber(1)) >>,
                               << << StmtReturn(ExprNumber(2)) >> >>),
                        StmtExpression(ExprNumber(3)) >>)),
       \* function scaled(x) { y = x * priority  return y }
       FunctionDef("scaled", <<115, 99, 97, 108, 101, 100>>, <<"x">>,
           BodyBlock(<< StmtAssign("y", BinaryOp(Ident("x"), "Mul", Ident("priority"))),
                        StmtReturn(Ident("y")) >>)) >>

(***************************************************************************)
(* Results: Result<Value, String> together with the environment the call   *)
(* leaves behind (the evaluator takes the context by &mut).                *)
(***************************************************************************)
Ok(v, env) == [ok |-> TRUE, v |-> v, err |-> "", env |-> env]
Err(msg, env) == [ok |-> FALSE, v |-> Null, err |-> msg, env |-> env]

(***************************************************************************)
(* Expression evaluator (expr_evaluator.rs, builtin_functions.rs).         *)
(***************************************************************************)
is_truthy(value) ==
    CASE value.k = "Bool" -> value.v
      [] value.k = "Number" -> value.v # 0
      [] value.k = "String" -> value.v # <<>>
      [] value.k = "List" -> value.v # <<>>
      [] value.k = "Null" -> FALSE
      [] value.k = "Map" -> DOMAIN value.v # {}
      [] value.k = "BuiltinFunction" -> TRUE
      [] value.k = "UserFunction" -> TRUE

\* impl PartialEq for Value (ast.rs) and ExprEvaluator::values_equal, which
\* agree.  Two BuiltinFunction values are compared by the address of the
\* storage that holds the pointer, and the two operands are always held in
\* different places, so they never compare equal.
RECURSIVE values_equal(_, _)
values_equal(left, right) ==
    IF left.k # right.k THEN FALSE
    ELSE CASE left.k \in {"Number", "String", "Bool"} -> left.v = right.v
           [] left.k = "List" ->
                /\ Len(left.v) = Len(right.v)
                /\ \A i \in 1..Len(left.v) : values_equal(left.v[i], right.v[i])
           [] left.k = "Null" -> TRUE
           [] left.k = "Map" ->
                /\ DOMAIN left.v = DOMAIN right.v
                /\ \A key \in DOMAIN left.v : values_equal(left.v[key], right.v[key])
           [] left.k = "BuiltinFunction" -> FALSE
           [] left.k = "UserFunction" ->
                /\ FunctionTable[left.v].name = FunctionTable[right.v].name
                /\ FunctionTable[left.v].params = FunctionTable[right.v].params

\* BuiltinFunctions::values_equal: scalars and null only
builtin_values_equal(left, right) ==
    IF left.k # right.k THEN FALSE
    ELSE CASE left.k \in {"Number", "String", "Bool"} -> left.v = right.v
           [] left.k = "Null" -> TRUE
           [] OTHER -> FALSE

\* i64 division truncates toward zero
TruncDiv(a, b) ==
    IF (a >= 0) = (b > 0) THEN (IF a >= 0 THEN a ELSE -a) \div (IF b > 0 THEN b ELSE -b)
    ELSE -((IF a >= 0 THEN a ELSE -a) \div (IF b > 0 THEN b ELSE -b))

add_values(left, right, env) ==
    IF left.k = "Number" /\ right.k = "Number" THEN Ok(Number(left.v + right.v), env)
    ELSE IF left.k = "String" /\ right.k = "String" THEN Ok(String(left.v \o right.v), env)
    ELSE Err("Cannot add these types", env)

sub_values(left, right, env) ==
    IF left.k = "Number" /\ right.k = "Number" THEN Ok(Number(left.v - right.v), env)
    ELSE Err("Cannot subtract non-numbers", env)

mul_values(left, right, env) ==
    IF left.k = "Number" /\ right.k = "Number" THEN Ok(Number(left.v * right.v), env)
    ELSE Err("Cannot multiply non-numbers", env)

div_values(left, right, env) ==
    IF left.k = "Number" /\ right.k = "Number"
    THEN IF right.v = 0 THEN Err("Division by zero", env)
         ELSE Ok(Number(TruncDiv(left.v, right.v)), env)
    ELSE Err("Cannot divide non-numbers", env)

\* ExprEvaluator::compare_values with the closure of Lt, Le, Gt, Ge
compare_numbers(left, right, op, env) ==
    IF left.k = "Number" /\ right.k = "Number"
    THEN Ok(Bool(CASE op = "Lt" -> left.v < right.v
                   [] op = "Le" -> left.v <= right.v
                   [] op = "Gt" -> left.v > right.v
                   [] op = "Ge" -> left.v >= right.v), env)
    ELSE Err("Cannot compare non-numbers", env)

in_operation(left, right, env) ==
    CASE right.k = "List" ->
            Ok(Bool(\E i \in 1..Len(right.v) : values_equal(left, right.v[i])), env)
      [] right.k = "String" ->
            IF left.k = "String" THEN Ok(Bool(StrContains(right.v, left.v)), env)
            ELSE Err("'in' operation with string requires string on left side", env)
      [] OTHER -> Err("'in' operation requires list or string on right side", env)

len_function(args, env) ==
    IF Len(args) # 1 THEN Err("len() takes exactly 1 argument", env)
    ELSE IF args[1].k \in {"List", "String"} THEN Ok(Number(Len(args[1].v)), env)
    ELSE Err("len() can only be applied to lists or strings", env)

max_function(args, env) ==
    IF args = <<>> THEN Err("max() requires at least 1 argument", env)
    ELSE IF \E i \in 1..Len(args) : args[i].k # "Number"
         THEN Err("max() can only be applied to numbers", env)
    ELSE Ok(Number(CHOOSE n \in { args[i].v : i \in 1..Len(args) } :
                       \A i \in 1..Len(args) : args[i].v <= n), env)

min_function(args, env) ==
    IF args = <<>> THEN Err("min() requires at least 1 argument", env)
    ELSE IF \E i \in 1..Len(args) : args[i].k # "Number"
         THEN Err("min() can only be applied to numbers", env)
    ELSE Ok(Number(CHOOSE n \in { args[i].v : i \in 1..Len(args) } :
                       \A i \in 1..Len(args) : args[i].v >= n), env)

contains_function(args, env) ==
    IF Len(args) # 2 THEN Err("contains() takes exactly 2 arguments", env)
    ELSE IF args[1].k = "List"
         THEN Ok(Bool(\E i \in 1..Len(args[1].v) : builtin_values_equal(args[1].v[i], args[2])), env)
    ELSE IF args[1].k = "String" /\ args[2].k = "String"
         THEN Ok(Bool(StrContains(args[1].v, args[2].v)), env)
    ELSE Err("contains() first argument must be a list or string", env)

\* BuiltinFunctions::register_all
BuiltinNames == {"len", "max", "min", "contains"}

call_builtin(name, args, env) ==
    CASE name = "len" -> len_function(args, env)
      [] name = "max" -> max_function(args, env)
      [] name = "min" -> min_function(args, env)
      [] name = "contains" -> contains_function(args, env)

CaseProperties == {"id", "category", "status", "priority", "score", "customer"}

map_get(map, object, property, env) ==
    IF property \in DOMAIN map THEN Ok(map[property], env)
    ELSE Err("Property '" \o property \o "' not found on object '" \o object \o "'", env)

evaluate_special_member_access(env, object, property) ==
    Err("Cannot access property '" \o property \o "' on object '" \o object \o "' of this type", env)

evaluate_builtin_member_access(env, object, property) ==
    CASE object = "case" ->
            IF property \in CaseProperties
            THEN LET found == Lookup(env, property)
                 IN  IF found.some THEN Ok(found.v, env)
                     ELSE Err("Case " \o property \o " not available", env)
            ELSE Err("Unknown case property: " \o property, env)
      [] object = "agent" ->
            LET agent == Lookup(env, "agent")
            IN  IF ~agent.some THEN Err("Agent object not available in context", env)
                ELSE IF agent.v.k # "Map" THEN Err("Agent is not a map object", env)
                ELSE IF property \in DOMAIN agent.v.v THEN Ok(agent.v.v[property], env)
                ELSE Err("Agent property '" \o property \o "' not found", env)
      [] OTHER ->
            LET obj == Lookup(env, object)
            IN  IF ~obj.some THEN Err("Unknown object: " \o object, env)
                ELSE IF obj.v.k # "Map"
                     THEN Err("Object '" \o object \o "' is not accessible with dot notation", env)
                ELSE map_get(obj.v.v, object, property, env)

evaluate_member_access(env, object, property) ==
    LET obj == Lookup(env, object)
    IN  IF obj.some
        THEN IF obj.v.k = "Map" THEN map_get(obj.v.v, object, property, env)
             ELSE evaluate_special_member_access(env, object, property)
        ELSE evaluate_builtin_member_access(env, object, property)

\* a variant of BindParams that assigns each parameter where the name is
\* already bound
RECURSIVE BindParams_set(_, _, _)
BindParams_set(env, params, args) ==
    IF params = <<>> \/ args = <<>> THEN env
    ELSE BindParams_set(Set(env, Head(params), Head(args)), Tail(params), Tail(args))

\* the scope of a call: enter_scope, then each parameter bound to its argument
RECURSIVE BindParams(_, _, _)
BindParams(env, params, args) ==
    IF params = <<>> \/ args = <<>> THEN env
    ELSE BindParams(Insert(env, Head(params), Head(args)), Tail(params), Tail(args))

\* Variants of LeaveCall: one that leaves the scope only when the body
\* returned Ok, one that never leaves it.
LeaveCall_on_ok(result) ==
    IF result.ok THEN [result EXCEPT !.env = ExitScope(result.env)] ELSE result

LeaveCall_never(result) == result

\* the scope of a call is left again, whatever the body returned
LeaveCall(result) == [result EXCEPT !.env = ExitScope(result.env)]

RECURSIVE evaluate_expr(_, _)
RECURSIVE evaluate_exprs(_, _, _)
RECURSIVE evaluate_user_function(_, _, _)
RECURSIVE evaluate_function_block(_, _, _)

\* the loops of Expr::List and of evaluate_function_call over the argument
\* expressions: left to right, the first failure ends the loop
evaluate_exprs(env, exprs, values) ==
    IF exprs = <<>> THEN Ok(List(values), env)
    ELSE LET r == evaluate_expr(env, Head(exprs))
         IN  IF ~r.ok THEN r
             ELSE evaluate_exprs(r.env, Tail(exprs), Append(values, r.v))

\* a variant of and_value that coerces to Bool
and_value_bool(left_val, right_val) == Bool(is_truthy(left_val) /\ is_truthy(right_val))

\* the arms of BinaryOperator::And and BinaryOperator::Or
and_value(left_val, right_val) == IF is_truthy(left_val) THEN right_val ELSE left_val

or_value(left_val, right_val) == IF is_truthy(left_val) THEN left_val ELSE right_val

evaluate_binary_op(env, left, op, right) ==
    LET l == evaluate_expr(env, left)
    IN  IF ~l.ok THEN l
        ELSE LET r == evaluate_expr(l.env, right)
             IN  IF ~r.ok THEN r
                 ELSE CASE op = "Add" -> add_values(l.v, r.v, r.env)
                        [] op = "Sub" -> sub_values(l.v, r.v, r.env)
                        [] op = "Mul" -> mul_values(l.v, r.v, r.env)
                        [] op = "Div" -> div_values(l.v, r.v, r.env)
                        [] op = "Eq" -> Ok(Bool(values_equal(l.v, r.v)), r.env)
                        [] op = "Neq" -> Ok(Bool(~values_equal(l.v, r.v)), r.env)
                        [] op \in {"Lt", "Le", "Gt", "Ge"} -> compare_numbers(l.v, r.v, op, r.env)
                        [] op = "And" -> Ok(and_value(l.v, r.v), r.env)
                        [] op = "Or" -> Ok(or_value(l.v, r.v), r.env)
                        [] op = "In" -> in_operation(l.v, r.v, r.env)

evaluate_unary_op(env, op, expr) ==
    LET val == evaluate_expr(env, expr)
    IN  IF ~val.ok THEN val
        ELSE CASE op = "Neg" ->
                    IF val.v.k = "Number" THEN Ok(Number(-val.v.v), val.env)
                    ELSE Err("Cannot negate non-number", val.env)
               [] op = "Not" -> Ok(Bool(~is_truthy(val.v)), val.env)

evaluate_function_call(env, name, args) ==
    LET a == evaluate_exprs(env, args, <<>>)
    IN  IF ~a.ok THEN a
        ELSE LET function_value == Lookup(a.env, name)
             IN  IF ~function_value.some THEN Err("Unknown function: " \o name, a.env)
                 ELSE CASE function_value.v.k = "BuiltinFunction" ->
                              call_builtin(function_value.v.v, a.v.v, a.env)
                        [] function_value.v.k = "UserFunction" ->
                              evaluate_user_function(a.env, function_value.v.v, a.v.v)
                        [] OTHER -> Err("'" \o name \o "' is not a function", a.env)

evaluate_user_function(env, f, args) ==
    LET function == FunctionTable[f]
    IN  IF Len(args) # Len(function.params)
        THEN Err("Function '" \o function.name \o "' expects "
                 \o ToString(Len(function.params)) \o " arguments, got "
                 \o ToString(Len(args)), env)
        ELSE LET scope == BindParams(EnterScope(env), function.params, args)
                 result == IF function.body.t = "Expression"
                           THEN evaluate_expr(scope, function.body.expr)
                           ELSE evaluate_function_block(scope, function.body.statements, Null)
             IN  LeaveCall(result)

\* one pass of the statement loop; last_value is the loop's running value
evaluate_function_block(env, statements, last_value) ==
    IF statements = <<>> THEN Ok(last_value, env)
    ELSE LET statement == Head(statements)
             rest == Tail(statements)
         IN  CASE statement.t \in {"Let", "Assign"} ->
                    LET val == evaluate_expr(env, statement.value)
                    IN  IF ~val.ok THEN val
                        ELSE evaluate_function_block(
                                 Insert(val.env, statement.name, val.v), rest, last_value)
               [] statement.t = "If" ->
                    LET cond_val == evaluate_expr(env, statement.condition)
                    IN  IF ~cond_val.ok THEN cond_val
                        ELSE IF is_truthy(cond_val.v)
                        THEN LET inner == evaluate_function_block(
                                              cond_val.env, statement.then_body, Null)
                             IN  IF ~inner.ok THEN inner
                                 ELSE evaluate_function_block(inner.env, rest, inner.v)
                        ELSE IF statement.else_body # <<>>
                        THEN LET inner == evaluate_function_block(
                                              cond_val.env, statement.else_body[1], Null)
                             IN  IF ~inner.ok THEN inner
                                 ELSE evaluate_function_block(inner.env, rest, inner.v)
                        ELSE evaluate_function_block(cond_val.env, rest, last_value)
               [] statement.t = "Return" -> evaluate_expr(env, statement.expr)
               [] statement.t = "Expression" ->
                    LET val == evaluate_expr(env, statement.expr)
                    IN  IF ~val.ok THEN val
                        ELSE evaluate_function_block(val.env, rest, val.v)

evaluate_expr(env, expr) ==
    CASE expr.t = "Number" -> Ok(Number(expr.n), env)
      [] expr.t = "String" -> Ok(String(expr.s), env)
      [] expr.t = "Bool" -> Ok(Bool(expr.b), env)
      [] expr.t = "Ident" ->
            LET found == Lookup(env, expr.name)
            IN  IF found.some THEN Ok(found.v, env)
                ELSE Err("Undefined variable: " \o expr.name, env)
      [] expr.t = "List" -> evaluate_exprs(env, expr.exprs, <<>>)
      [] expr.t = "BinaryOp" -> evaluate_binary_op(env, expr.left, expr.op, expr.right)
      [] expr.t = "UnaryOp" -> evaluate_unary_op(env, expr.op, expr.expr)
      [] expr.t = "FunctionCall" -> evaluate_function_call(env, expr.name, expr.args)
      [] expr.t = "MemberAccess" -> evaluate_member_access(env, expr.object, expr.property)

(***************************************************************************)
(* Records (models/case.rs) and workflows (ast.rs).  customer is an        *)
(* Option<String>: << >> for None, <<s>> for Some(s).                      *)
(***************************************************************************)
CaseConfig(id, category, status, priority, customer, score) ==
    [id |-> id, category |-> category, status |-> status, priority |-> priority,
     customer |-> customer, score |-> score]

AssignScore(expr) == [t |-> "AssignScore", expr |-> expr]
Log(message) == [t |-> "Log", message |-> message]
ActionAssign(var_name) == [t |-> "Assign", var_name |-> var_name]
AssignTo(var_name) == [t |-> "AssignTo", var_name |-> var_name]
Rule(condition, action) == [condition |-> condition, action |-> action]

Score(rules) == [t |-> "Score", rules |-> rules]
Match(rules) == [t |-> "Match", rules |-> rules]
Filter(condition) == [t |-> "Filter", condition |-> condition]
Sort(key, order) == [t |-> "Sort", key |-> key, order |-> order]

(***************************************************************************)
(* Action evaluator (action_evaluator.rs).  The result carries the record  *)
(* the action was given by &mut.                                           *)
(***************************************************************************)
Done(env, case) == [ok |-> TRUE, err |-> "", env |-> env, case |-> case]
Failed(msg, env, case) == [ok |-> FALSE, err |-> msg, env |-> env, case |-> case]

execute_action(env, action, case) ==
    CASE action.t = "AssignScore" ->
            LET score_value == evaluate_expr(env, action.expr)
            IN  IF ~score_value.ok THEN Failed(score_value.err, score_value.env, case)
                ELSE IF score_value.v.k = "Number"
                THEN Done(Set(score_value.env, "score", Number(score_value.v.v)),
                          [case EXCEPT !.score = score_value.v.v])
                ELSE Failed("Score must be a number", score_value.env, case)
      [] action.t = "Log" -> Done(env, case)
      [] action.t = "Assign" -> Done(Insert(env, action.var_name, Bool(TRUE)), case)

case_to_map(case) ==
    LET fields == [id |-> String(ToDecimal(case.id)),
                   category |-> String(case.category),
                   status |-> String(case.status),
                   priority |-> String(ToDecimal(case.priority)),
                   score |-> String(ToDecimal(case.score))]
    IN  IF case.customer # <<>>
        THEN MapInsert(fields, "customer", String(case.customer[1]))
        ELSE fields

\* a variant of execute_match_action that also raises the priority of the
\* record it files
execute_match_action_raise(env, action, case) ==
    [ok |-> TRUE, err |-> "", env |-> Insert(env, action.var_name, Map(case_to_map(case))),
     case |-> [case EXCEPT !.priority = case.priority + 1]]

execute_match_action(env, action, case) ==
    Done(Insert(env, action.var_name, Map(case_to_map(case))), case)

(***************************************************************************)
(* Workflow evaluator (workflow_evaluator.rs).                             *)
(***************************************************************************)
\* a variant of setup_case_context that binds the record in the innermost
\* frame without pushing a scope
setup_case_context_flat(env, case) ==
    LET e1 == Insert(env, "id", Number(case.id))
        e2 == Insert(e1, "category", String(case.category))
        e3 == Insert(e2, "status", String(case.status))
        e4 == Insert(e3, "priority", Number(case.priority))
        e5 == Insert(e4, "score", Number(case.score))
    IN  IF case.customer # <<>>
        THEN Insert(e5, "customer", String(case.customer[1]))
        ELSE Insert(e5, "customer", String(S_empty))

setup_case_context(env, case) ==
    LET e0 == EnterScope(env)
        e1 == Insert(e0, "id", Number(case.id))
        e2 == Insert(e1, "category", String(case.category))
        e3 == Insert(e2, "status", String(case.status))
        e4 == Insert(e3, "priority", Number(case.priority))
        e5 == Insert(e4, "score", Number(case.score))
    IN  IF case.customer # <<>>
        THEN Insert(e5, "customer", String(case.customer[1]))
        ELSE Insert(e5, "customer", String(S_empty))

\* the bindings of the innermost frame that are neither record fields nor
\* functions
get_persistent_variables(env) ==
    IF env = <<>> THEN EmptyMap
    ELSE LET current_scope == env[Len(env)]
             keep == { name \in DOMAIN current_scope :
                         /\ name \notin CaseProperties
                         /\ current_scope[name].k \notin {"BuiltinFunction", "UserFunction"} }
         IN  [name \in keep |-> current_scope[name]]

\* the loop after the per-record scope is left: every binding of post that
\* pre does not name is inserted into the innermost frame
reinsert_new(env, pre_match_vars, post_match_vars) ==
    IF env = <<>> THEN env
    ELSE LET new == (DOMAIN post_match_vars) \ (DOMAIN pre_match_vars)
         IN  [env EXCEPT ![Len(env)] =
                 [x \in (DOMAIN @) \cup new |->
                     IF x \in new THEN post_match_vars[x] ELSE @[x]]]

value_to_string(value) ==
    CASE value.k = "Number" -> ToDecimal(value.v)
      [] value.k = "String" -> value.v
      [] value.k = "Bool" -> IF value.v THEN S_true ELSE S_false
      [] value.k = "Null" -> S_null
      [] value.k = "List" -> S_list
      [] value.k = "Map" -> S_map
      [] value.k = "BuiltinFunction" -> S_builtin_function
      [] value.k = "UserFunction" -> S_user_function_ \o FunctionTable[value.v].name_bytes

\* WorkflowEvaluator::compare_values: -1 (Less), 0 (Equal), 1 (Greater)
compare_values(a, b) ==
    CASE a.k = "Number" /\ b.k = "Number" -> IntCmp(a.v, b.v)
      [] a.k = "String" /\ b.k = "String" -> StrCmp(a.v, b.v)
      [] a.k = "Bool" /\ b.k = "Bool" ->
            IntCmp(IF a.v THEN 1 ELSE 0, IF b.v THEN 1 ELSE 0)
      [] OTHER -> StrCmp(value_to_string(a), value_to_string(b))

\* the closure handed to sort_by
sort_cmp(order, a, b) ==
    IF order = "Asc" THEN compare_values(a, b) ELSE -compare_values(a, b)

\* one entry of case_key_pairs
Pair(case, key) == [case |-> case, key |-> key]

\* whether the closure is a total preorder on the keys of the pairs: sort_by
\* requires one, and leaves the order of the slice unspecified (or panics)
\* when it is handed anything else
IsTotalOrder(pairs, order) ==
    \A i, j, l \in 1..Len(pairs) :
        /\ sort_cmp(order, pairs[i].key, pairs[j].key) = -sort_cmp(order, pairs[j].key, pairs[i].key)
        /\ (sort_cmp(order, pairs[i].key, pairs[j].key) <= 0
            /\ sort_cmp(order, pairs[j].key, pairs[l].key) <= 0)
           => sort_cmp(order, pairs[i].key, pairs[l].key) <= 0

\* the stable sort of a short slice: each element in turn is moved left past
\* the elements it is less than
RECURSIVE insert_tail(_, _, _, _)
insert_tail(sorted, x, j, order) ==
    IF j >= 1 /\ sort_cmp(order, x.key, sorted[j].key) < 0
    THEN insert_tail(sorted, x, j - 1, order)
    ELSE SubSeq(sorted, 1, j) \o <<x>> \o SubSeq(sorted, j + 1, Len(sorted))

RECURSIVE insertion_sort(_, _, _)
insertion_sort(sorted, rest, order) ==
    IF rest = <<>> THEN sorted
    ELSE insertion_sort(insert_tail(sorted, Head(rest), Len(sorted), order), Tail(rest), order)

Orderings(seq) ==
    { [i \in 1..Len(seq) |-> seq[p[i]]] :
        p \in { q \in [1..Len(seq) -> 1..Len(seq)] :
                  \A a, b \in 1..Len(seq) : a # b => q[a] # q[b] } }

\* the orders case_key_pairs.sort_by(..) can leave the pairs in
sort_by(pairs, order) ==
    IF IsTotalOrder(pairs, order) THEN { insertion_sort(<<>>, pairs, order) }
    ELSE Orderings(pairs)

\* a variant that loses the first pair
cases_of_tail(pairs) == [i \in 1..(Len(pairs) - 1) |-> pairs[i + 1].case]

\* .into_iter().map(|(case, _)| case).collect()
cases_of(pairs) == [i \in 1..Len(pairs) |-> pairs[i].case]

(***************************************************************************)
(* The inputs of the model: the records a host adds, the phases a workflow *)
(* is made of, the variables a host sets.                                  *)
(***************************************************************************)
CaseTable ==
    << CaseConfig(1, S_bug, S_open, 10, <<>>, 0),
       CaseConfig(2, S_feature, S_closed, 2, <<S_10>>, 0),
       CaseConfig(3, S_bug, S_open, 9, <<>>, 0) >>

PhaseTable ==
    << \* 1: score { when priority > 3 then score = priority * 10
       \*            when status == "open" then score = score + 5
       \*            when customer != "" then log "has customer" }
       Score(<< Rule(BinaryOp(Ident("priority"), "Gt", ExprNumber(3)),
                     AssignScore(BinaryOp(Ident("priority"), "Mul", ExprNumber(10)))),
                Rule(BinaryOp(Ident("status"), "Eq", ExprString(S_open)),
                     AssignScore(BinaryOp(Ident("score"), "Add", ExprNumber(5)))),
                Rule(BinaryOp(Ident("customer"), "Neq", ExprString(S_empty)),
                     Log("has customer")) >>),
       \* 2: score { when status == "open" then score = score + 1
       \*            when true then score = 100 / (priority - 2) }
       Score(<< Rule(BinaryOp(Ident("status"), "Eq", ExprString(S_open)),
                     AssignScore(BinaryOp(Ident("score"), "Add", ExprNumber(1)))),
                Rule(ExprBool(TRUE),
                     AssignScore(BinaryOp(ExprNumber(100), "Div",
                         BinaryOp(Ident("priority"), "Sub", ExprNumber(2))))) >>),
       \* 3: a score phase built as an AST, with the Assign action:
       \*    when priority > 3 then score = 7
       \*    when status == "open" then Assign("score")
       Score(<< Rule(BinaryOp(Ident("priority"), "Gt", ExprNumber(3)),
                     AssignScore(ExprNumber(7))),
                Rule(BinaryOp(Ident("status"), "Eq", ExprString(S_open)),
                     ActionAssign("score")) >>),
       \* 4: match { when score > 50 then assign to urgent
       \*            when priority > 9 then assign to normal
       \*            when customer != "" then assign to priority }
       Match(<< Rule(BinaryOp(Ident("score"), "Gt", ExprNumber(50)), AssignTo("urgent")),
                Rule(BinaryOp(Ident("priority"), "Gt", ExprNumber(9)), AssignTo("normal")),
                Rule(BinaryOp(Ident("customer"), "Neq", ExprString(S_empty)),
                     AssignTo("priority")) >>),
       \* 5: filter { when status == "open" }
       Filter(BinaryOp(Ident("status"), "Eq", ExprString(S_open))),
       \* 6: filter { when score > threshold }
       Filter(BinaryOp(Ident("score"), "Gt", Ident("threshold"))),
       \* 7: sort { by priority }
       Sort(Ident("priority"), "Asc"),
       \* 8: sort { by priority desc }
       Sort(Ident("priority"), "Desc"),
       \* 9: sort { by category desc }
       Sort(Ident("category"), "Desc"),
       \* 10: sort { by customer or priority }
       Sort(BinaryOp(Ident("customer"), "Or", Ident("priority")), "Asc"),
       \* 11: sort { by customer or priority desc }
       Sort(BinaryOp(Ident("customer"), "Or", Ident("priority")), "Desc"),
       \* 12: score { when true then score = double(priority) }
       Score(<< Rule(ExprBool(TRUE),
                     AssignScore(FunctionCall("double", << Ident("priority") >>))) >>),
       \* 13: match { when true then assign to case }
       Match(<< Rule(ExprBool(TRUE), AssignTo("case")) >>) >>

\* the workflows a host runs: up to MaxPhases phases, each named by its index
\* in PhaseTable
RECURSIVE SeqsUpTo(_, _)
SeqsUpTo(S, n) ==
    IF n = 0 THEN { <<>> }
    ELSE LET shorter == SeqsUpTo(S, n - 1)
         IN  shorter \cup { Append(q, x) : q \in { r \in shorter : Len(r) = n - 1 }, x \in S }

\* the engine specification runs workflows over the phases 1 to 8; the sort
\* specification runs workflows over the sort phases
EnginePhases == 1..8
SortPhases == 7..11
Workflows == SeqsUpTo(EnginePhases, MaxPhases)
\* the program specification runs lists of one-phase workflows and of the
\* workflow `score {..} filter { when score > threshold }`
ProgramPhases == {1, 2, 4, 6, 12, 13}
Programs == SeqsUpTo({ << p >> : p \in ProgramPhases } \cup { << 1, 6 >> }, MaxWorkflows)
\* Program.functions: indices into FunctionTable
ProgramFunctions == { << 1 >>, << 2, 1 >> }
SortWorkflows == SeqsUpTo(SortPhases, MaxPhases)

\* register_function calls of the host: indices into FunctionTable
HostFunctions == {1, 2}

\* set_variable(name, value) calls of the host
HostVariables == { <<"threshold", Number(50)>> }

(***************************************************************************)
(* The engine as a state machine.  A host drives a CoreEngine through its  *)
(* facade (core.rs); execute_workflow runs step by step through the loops  *)
(* of workflow_evaluator.rs: one step per phase entry, per record set up,  *)
(* per rule, per record finished, per phase ended.                         *)
(***************************************************************************)
VARIABLES
    env,            \* context.env.env: the frame stack
    cases,          \* context.stack.cases
    pc,             \* "idle": between facade calls; "phase": at the head of the
                    \* phase loop; "case": at the head of a record loop;
                    \* "rules": inside a record's scope; "panicked"
    workflow,       \* the workflow being executed: indices into PhaseTable
    phase,          \* position of the phase loop
    input,          \* the cases a phase was called with
    idx,            \* position of the record loop in input
    current,        \* the record being processed (case_copy), << >> if none
    rule,           \* position of the rule loop
    processed,      \* processed_cases / filtered_cases / sorted_cases
    pairs,          \* case_key_pairs
    pre_match_vars, \* get_persistent_variables before the match rules ran
    result,         \* what the last facade call returned
    runs,           \* execute_workflow calls so far
    hostOps,        \* scope, variable, function and reset calls so far
    entry_env,      \* history: the frame stack when execute_workflow was entered
    log,            \* history: the rules tried on the current record, in order
    matched,        \* history: the match actions executed by this run, in order
    program,        \* the workflows the running facade call was given
    wf,             \* position of the workflow loop in program
    evaluated,      \* history: the expression of the last evaluate_expression
                    \* call, as an index into ExprTable (0: none)
    returned_value  \* the value that call returned

vars == << env, cases, pc, workflow, phase, input, idx, current, rule, processed,
           pairs, pre_match_vars, result, runs, hostOps, entry_env, log, matched,
           program, wf, evaluated, returned_value >>

NoResult == [returned |-> FALSE, ok |-> TRUE, err |-> ""]
ReturnedOk == [returned |-> TRUE, ok |-> TRUE, err |-> ""]
\* a variant that swallows the error
ReturnedErr_swallowed(msg) == ReturnedOk
ReturnedErr(msg) == [returned |-> TRUE, ok |-> FALSE, err |-> msg]

\* CoreVM::new: VmContext::default() has no frame; the first frame gets the
\* built-ins
CoreVM_new ==
    Append(<<>>, [name \in BuiltinNames |-> BuiltinFunction(name)])

\* CoreEngine::new: one more, empty, frame
CoreEngine_new == EnterScope(CoreVM_new)

\* Environment::new, which reset installs: one empty frame
Environment_new == EnterScope(<<>>)

Init ==
    /\ env = CoreEngine_new
    /\ cases = <<>>
    /\ pc = "idle"
    /\ workflow = <<>>
    /\ phase = 0
    /\ input = <<>>
    /\ idx = 0
    /\ current = <<>>
    /\ rule = 0
    /\ processed = <<>>
    /\ pairs = <<>>
    /\ pre_match_vars = EmptyMap
    /\ result = NoResult
    /\ runs = 0
    /\ hostOps = 0
    /\ entry_env = <<>>
    /\ log = <<>>
    /\ matched = <<>>
    /\ program = <<>>
    /\ wf = 0
    /\ evaluated = 0
    /\ returned_value = Null

\* the locals of a finished call are gone
LocalsDropped ==
    /\ phase' = 0
    /\ input' = <<>>
    /\ idx' = 0
    /\ current' = <<>>
    /\ rule' = 0
    /\ processed' = <<>>
    /\ pairs' = <<>>
    /\ pre_match_vars' = EmptyMap

RunUnchanged ==
    UNCHANGED << workflow, phase, input, idx, current, rule, processed, pairs,
                 pre_match_vars, runs, entry_env, log, matched, program, wf,
                 evaluated, returned_value >>

\* the steps of a run leave the call's arguments and the last evaluation alone
CallUnchanged == UNCHANGED << program, wf, evaluated, returned_value >>

(***************************************************************************)
(* Facade calls that do not run a workflow.                                *)
(***************************************************************************)
\* CoreEngine::add_case
AddCase(c) ==
    /\ pc = "idle"
    /\ runs < MaxRuns
    /\ Len(cases) < MaxCases
    /\ cases' = Append(cases, c)
    /\ result' = NoResult
    /\ UNCHANGED << env, pc, hostOps >>
    /\ RunUnchanged

\* CoreEngine::enter_scope
HostEnterScope ==
    /\ pc = "idle"
    /\ runs < MaxRuns
    /\ hostOps < MaxHostOps
    /\ env' = EnterScope(env)
    /\ hostOps' = hostOps + 1
    /\ result' = NoResult
    /\ UNCHANGED << cases, pc >>
    /\ RunUnchanged

\* CoreEngine::exit_scope
HostExitScope ==
    /\ pc = "idle"
    /\ runs < MaxRuns
    /\ hostOps < MaxHostOps
    /\ env' = ExitScope(env)
    /\ hostOps' = hostOps + 1
    /\ result' = NoResult
    /\ UNCHANGED << cases, pc >>
    /\ RunUnchanged

\* CoreEngine::set_variable
SetVariable(name, value) ==
    /\ pc = "idle"
    /\ runs < MaxRuns
    /\ hostOps < MaxHostOps
    /\ env' = Insert(env, name, value)
    /\ hostOps' = hostOps + 1
    /\ result' = NoResult
    /\ UNCHANGED << cases, pc >>
    /\ RunUnchanged

\* CoreEngine::register_function, CoreVM::register_function
RegisterFunction(f) ==
    /\ pc = "idle"
    /\ runs < MaxRuns
    /\ hostOps < MaxHostOps
    /\ env' = Insert(env, FunctionTable[f].name, UserFunction(f))
    /\ hostOps' = hostOps + 1
    /\ result' = NoResult
    /\ UNCHANGED << cases, pc >>
    /\ RunUnchanged

\* CoreEngine::reset: clear_cases, then a new Environment
Reset ==
    /\ pc = "idle"
    /\ runs < MaxRuns
    /\ hostOps < MaxHostOps
    /\ cases' = <<>>
    /\ env' = Environment_new
    /\ hostOps' = hostOps + 1
    /\ result' = NoResult
    /\ UNCHANGED pc
    /\ RunUnchanged

(***************************************************************************)
(* execute_workflow.                                                       *)
(***************************************************************************)
CurrentPhase == PhaseTable[workflow[phase]]

\* CoreVM::execute_workflow up to the phase loop: the cases are cloned and
\* handed to WorkflowEvaluator::execute_workflow
ExecuteWorkflow(w) ==
    /\ pc = "idle"
    /\ runs < MaxRuns
    /\ runs' = runs + 1
    /\ workflow' = w
    /\ phase' = 1
    /\ processed' = cases
    /\ pc' = "phase"
    /\ result' = NoResult
    /\ entry_env' = env
    /\ log' = <<>>
    /\ matched' = <<>>
    /\ input' = <<>>
    /\ idx' = 0
    /\ current' = <<>>
    /\ rule' = 0
    /\ pairs' = <<>>
    /\ pre_match_vars' = EmptyMap
    /\ UNCHANGED << env, cases, hostOps >>
    /\ program' = << w >>
    /\ wf' = 1
    /\ UNCHANGED << evaluated, returned_value >>

\* CoreVM::register_functions: register_function for each, in order
RECURSIVE register_functions(_, _)
register_functions(e, functions) ==
    IF functions = <<>> THEN e
    ELSE register_functions(
             Insert(e, FunctionTable[Head(functions)].name, UserFunction(Head(functions))),
             Tail(functions))

\* the loop `for workflow in workflows { self.execute_workflow(workflow)?; }`
\* is entered with the frame stack e: an empty list returns Ok(()) at once,
\* otherwise execute_workflow is called for the first workflow
BeginWorkflows(ws, e) ==
    /\ pc = "idle"
    /\ runs < MaxRuns
    /\ runs' = runs + 1
    /\ program' = ws
    /\ env' = e
    /\ entry_env' = e
    /\ log' = <<>>
    /\ matched' = <<>>
    /\ input' = <<>>
    /\ idx' = 0
    /\ current' = <<>>
    /\ rule' = 0
    /\ pairs' = <<>>
    /\ pre_match_vars' = EmptyMap
    /\ IF ws = <<>>
       THEN /\ wf' = 0
            /\ workflow' = <<>>
            /\ phase' = 0
            /\ processed' = <<>>
            /\ pc' = "idle"
            /\ result' = ReturnedOk
       ELSE /\ wf' = 1
            /\ workflow' = ws[1]
            /\ phase' = 1
            /\ processed' = cases
            /\ pc' = "phase"
            /\ result' = NoResult
    /\ UNCHANGED << cases, hostOps, evaluated, returned_value >>

\* CoreEngine::execute_workflows
ExecuteWorkflows(ws) == BeginWorkflows(ws, env)

\* CoreEngine::execute_program, CoreVM::execute_program: the functions of
\* the program are registered, then its workflows run
ExecuteProgram(functions, ws) == BeginWorkflows(ws, register_functions(env, functions))

\* a workflow of the list returned Ok and is not the last: its cases are
\* stored and execute_workflow is called for the next one
NextWorkflow ==
    /\ pc = "phase"
    /\ phase > Len(workflow)
    /\ wf < Len(program)
    /\ cases' = processed
    /\ wf' = wf + 1
    /\ workflow' = program[wf + 1]
    /\ phase' = 1
    /\ processed' = processed
    /\ entry_env' = env
    /\ log' = <<>>
    /\ matched' = <<>>
    /\ UNCHANGED << env, pc, input, idx, current, rule, pairs, pre_match_vars,
                    result, runs, hostOps, program, evaluated, returned_value >>

\* a variant of ReturnErr that stores the records processed so far in
\* stack.cases
ReturnErr_commit(msg, e) ==
    /\ pc' = "idle"
    /\ result' = ReturnedErr(msg)
    /\ env' = e
    /\ cases' = processed
    /\ LocalsDropped
    /\ UNCHANGED << workflow, runs, hostOps, entry_env, log, matched >>
    /\ CallUnchanged

\* a `?` that fires: the error leaves every loop and execute_workflow at
\* once, with the frame stack as the failing call left it; stack.cases is
\* not assigned
ReturnErr(msg, e) ==
    /\ pc' = "idle"
    /\ result' = ReturnedErr(msg)
    /\ env' = e
    /\ LocalsDropped
    /\ UNCHANGED << cases, workflow, runs, hostOps, entry_env, log, matched >>
    /\ CallUnchanged

\* the phase loop is over: Ok(processed_cases), which CoreVM::execute_workflow
\* stores in stack.cases
ReturnOk ==
    /\ pc = "phase"
    /\ phase > Len(workflow)
    /\ wf >= Len(program)
    /\ cases' = processed
    /\ pc' = "idle"
    /\ result' = ReturnedOk
    /\ LocalsDropped
    /\ UNCHANGED << env, workflow, runs, hostOps, entry_env, log, matched >>
    /\ CallUnchanged

\* the next phase is called with the cases the last one returned
\* a variant of phase_input that hands every phase the records the run
\* started from
phase_input_original(original, processed_cases) == original

\* the records a phase is called with: processed_cases, which holds the
\* output of the phase before it (the engine's records for the first)
phase_input(original, processed_cases) == processed_cases

BeginPhase ==
    /\ pc = "phase"
    /\ phase <= Len(workflow)
    /\ input' = phase_input(cases, processed)
    /\ idx' = 1
    /\ processed' = <<>>
    /\ pairs' = <<>>
    /\ pc' = "case"
    /\ UNCHANGED << env, cases, workflow, phase, current, rule, pre_match_vars,
                    result, runs, hostOps, entry_env, log, matched >>
    /\ CallUnchanged

\* the head of `for case in cases`: setup_case_context for the next record
\* (and, in a match phase, the bindings before the rules run)
SetupCase ==
    /\ pc = "case"
    /\ idx <= Len(input)
    /\ current' = << input[idx] >>
    /\ env' = setup_case_context(env, input[idx])
    /\ pre_match_vars' = IF CurrentPhase.t = "Match"
                         THEN get_persistent_variables(env')
                         ELSE EmptyMap
    /\ rule' = 1
    /\ log' = <<>>
    /\ pc' = "rules"
    /\ UNCHANGED << cases, workflow, phase, input, idx, processed, pairs, result,
                    runs, hostOps, entry_env, matched >>
    /\ CallUnchanged

\* Variants of the three steps below that the properties at the end of the
\* module must tell from the code's: a score loop that leaves at the first
\* rule that fires, a match loop without its break, a filter that puts a kept
\* record at the front.
next_score_rule_break(r, rules, fired) == IF fired THEN Len(rules) + 1 ELSE r + 1

next_match_rule_nobreak(r, rules, fired) == r + 1

filter_keep_front(filtered_cases, case, condition_result) ==
    IF is_truthy(condition_result) THEN << case >> \o filtered_cases
    ELSE filtered_cases

\* the rule the `for rule in rules` loop of execute_score_phase visits after
\* rule: the loop has no break
next_score_rule(r, rules, fired) == r + 1

\* the rule the loop of execute_match_phase visits after rule: a rule that
\* fired is followed by `break`
next_match_rule(r, rules, fired) == IF fired THEN Len(rules) + 1 ELSE r + 1

\* `if is_truthy(..) { filtered_cases.push(case) }`
filter_keep(filtered_cases, case, condition_result) ==
    IF is_truthy(condition_result) THEN Append(filtered_cases, case)
    ELSE filtered_cases

LogEntry(r, truthy, acted, action) ==
    [rule |-> r, truthy |-> truthy, acted |-> acted, action |-> action]

\* one pass of the loop of execute_score_phase
ScoreRule ==
    /\ pc = "rules"
    /\ CurrentPhase.t = "Score"
    /\ rule <= Len(CurrentPhase.rules)
    /\ LET r == CurrentPhase.rules[rule]
           condition_result == evaluate_expr(env, r.condition)
       IN  IF ~condition_result.ok
           THEN ReturnErr(condition_result.err, condition_result.env)
           ELSE IF is_truthy(condition_result.v)
           THEN LET done == execute_action(condition_result.env, r.action, current[1])
                IN  IF ~done.ok
                    THEN ReturnErr(done.err, done.env)
                    ELSE /\ env' = done.env
                         /\ current' = << done.case >>
                         /\ rule' = next_score_rule(rule, CurrentPhase.rules, TRUE)
                         /\ log' = Append(log, LogEntry(rule, TRUE, TRUE, r.action))
                         /\ UNCHANGED << cases, pc, workflow, phase, input, idx,
                                         processed, pairs, pre_match_vars, result,
                                         runs, hostOps, entry_env, matched >>
           ELSE /\ env' = condition_result.env
                /\ rule' = next_score_rule(rule, CurrentPhase.rules, FALSE)
                /\ log' = Append(log, LogEntry(rule, FALSE, FALSE, r.action))
                /\ UNCHANGED << cases, pc, workflow, phase, input, idx, current,
                                processed, pairs, pre_match_vars, result, runs,
                                hostOps, entry_env, matched >>
    /\ CallUnchanged

\* execute_score_phase returned Ok: the scope is left, the record is pushed
FinishScoreCase ==
    /\ pc = "rules"
    /\ CurrentPhase.t = "Score"
    /\ rule > Len(CurrentPhase.rules)
    /\ env' = ExitScope(env)
    /\ processed' = Append(processed, current[1])
    /\ current' = <<>>
    /\ idx' = idx + 1
    /\ pc' = "case"
    /\ UNCHANGED << cases, workflow, phase, input, rule, pairs, pre_match_vars,
                    result, runs, hostOps, entry_env, log, matched >>
    /\ CallUnchanged

\* one pass of the loop of execute_match_phase; a rule that fires ends it
MatchRule ==
    /\ pc = "rules"
    /\ CurrentPhase.t = "Match"
    /\ rule <= Len(CurrentPhase.rules)
    /\ LET r == CurrentPhase.rules[rule]
           condition_result == evaluate_expr(env, r.condition)
       IN  IF ~condition_result.ok
           THEN ReturnErr(condition_result.err, condition_result.env)
           ELSE IF is_truthy(condition_result.v)
           THEN LET done == execute_match_action(condition_result.env, r.action, current[1])
                IN  /\ env' = done.env
                    /\ current' = << done.case >>
                    /\ rule' = next_match_rule(rule, CurrentPhase.rules, TRUE)
                    /\ log' = Append(log, LogEntry(rule, TRUE, TRUE, r.action))
                    /\ matched' = Append(matched,
                                      [name |-> r.action.var_name, case |-> current[1]])
                    /\ UNCHANGED << cases, pc, workflow, phase, input, idx, processed,
                                    pairs, pre_match_vars, result, runs, hostOps,
                                    entry_env >>
           ELSE /\ env' = condition_result.env
                /\ rule' = next_match_rule(rule, CurrentPhase.rules, FALSE)
                /\ log' = Append(log, LogEntry(rule, FALSE, FALSE, r.action))
                /\ UNCHANGED << cases, pc, workflow, phase, input, idx, current,
                                processed, pairs, pre_match_vars, result, runs,
                                hostOps, entry_env, matched >>
    /\ CallUnchanged

\* execute_match_phase returned Ok: the bindings after the rules, the scope
\* left, the new bindings inserted again, the record pushed
FinishMatchCase ==
    /\ pc = "rules"
    /\ CurrentPhase.t = "Match"
    /\ rule > Len(CurrentPhase.rules)
    /\ LET post_match_vars == get_persistent_variables(env)
       IN  env' = reinsert_new(ExitScope(env), pre_match_vars, post_match_vars)
    /\ processed' = Append(processed, current[1])
    /\ current' = <<>>
    /\ idx' = idx + 1
    /\ pc' = "case"
    /\ UNCHANGED << cases, workflow, phase, input, rule, pairs, pre_match_vars,
                    result, runs, hostOps, entry_env, log, matched >>
    /\ CallUnchanged

\* the body of the loop of execute_filter_phase after the setup
FilterCase ==
    /\ pc = "rules"
    /\ CurrentPhase.t = "Filter"
    /\ LET condition_result == evaluate_expr(env, CurrentPhase.condition)
       IN  IF ~condition_result.ok
           THEN ReturnErr(condition_result.err, condition_result.env)
           ELSE /\ processed' = filter_keep(processed, current[1], condition_result.v)
                /\ env' = ExitScope(condition_result.env)
                /\ log' = Append(log, LogEntry(1, is_truthy(condition_result.v),
                                               FALSE, CurrentPhase))
                /\ current' = <<>>
                /\ idx' = idx + 1
                /\ pc' = "case"
                /\ UNCHANGED << cases, workflow, phase, input, rule, pairs,
                                pre_match_vars, result, runs, hostOps, entry_env,
                                matched >>
    /\ CallUnchanged

\* the body of the first loop of execute_sort_phase after the setup
SortKey ==
    /\ pc = "rules"
    /\ CurrentPhase.t = "Sort"
    /\ LET sort_key == evaluate_expr(env, CurrentPhase.key)
       IN  IF ~sort_key.ok
           THEN ReturnErr(sort_key.err, sort_key.env)
           ELSE /\ pairs' = Append(pairs, Pair(current[1], sort_key.v))
                /\ env' = ExitScope(sort_key.env)
                /\ current' = <<>>
                /\ idx' = idx + 1
                /\ pc' = "case"
                /\ UNCHANGED << cases, workflow, phase, input, rule, processed,
                                pre_match_vars, result, runs, hostOps, entry_env,
                                log, matched >>
    /\ CallUnchanged

\* a score, match or filter phase has seen every record: Ok(processed_cases)
EndPhase ==
    /\ pc = "case"
    /\ idx > Len(input)
    /\ CurrentPhase.t # "Sort"
    /\ phase' = phase + 1
    /\ pc' = "phase"
    /\ UNCHANGED << env, cases, workflow, input, idx, current, rule, processed,
                    pairs, pre_match_vars, result, runs, hostOps, entry_env, log,
                    matched >>
    /\ CallUnchanged

\* a sort phase has every key: sort_by, then the cases of the pairs
SortPairs ==
    /\ pc = "case"
    /\ idx > Len(input)
    /\ CurrentPhase.t = "Sort"
    /\ \E sorted \in sort_by(pairs, CurrentPhase.order) :
          /\ pairs' = sorted
          /\ processed' = cases_of(sorted)
    /\ phase' = phase + 1
    /\ pc' = "phase"
    /\ UNCHANGED << env, cases, workflow, input, idx, current, rule,
                    pre_match_vars, result, runs, hostOps, entry_env, log, matched >>
    /\ CallUnchanged

\* sort_by may panic when the closure is no total order: the call never
\* returns
SortPanic ==
    /\ pc = "case"
    /\ idx > Len(input)
    /\ CurrentPhase.t = "Sort"
    /\ ~IsTotalOrder(pairs, CurrentPhase.order)
    /\ pc' = "panicked"
    /\ UNCHANGED << env, cases, workflow, phase, input, idx, current, rule,
                    processed, pairs, pre_match_vars, result, runs, hostOps,
                    entry_env, log, matched >>
    /\ CallUnchanged

Next ==
    \/ \E i \in 1..Len(CaseTable) : AddCase(CaseTable[i])
    \/ HostEnterScope
    \/ HostExitScope
    \/ \E nv \in HostVariables : SetVariable(nv[1], nv[2])
    \/ \E f \in HostFunctions : RegisterFunction(f)
    \/ Reset
    \/ \E w \in Workflows : ExecuteWorkflow(w)
    \/ ReturnOk
    \/ BeginPhase
    \/ SetupCase
    \/ ScoreRule
    \/ FinishScoreCase
    \/ MatchRule
    \/ FinishMatchCase
    \/ FilterCase
    \/ SortKey
    \/ EndPhase
    \/ SortPairs

Spec == Init /\ [][Next]_vars

(***************************************************************************)
(* The sort specification: a new engine that holds any sequence of up to   *)
(* MaxSortCases records runs one workflow of sort phases.                  *)
(***************************************************************************)
InitSort ==
    /\ env = CoreEngine_new
    /\ cases \in SeqsUpTo(Range(CaseTable), MaxSortCases)
    /\ pc = "idle"
    /\ workflow = <<>>
    /\ phase = 0
    /\ input = <<>>
    /\ idx = 0
    /\ current = <<>>
    /\ rule = 0
    /\ processed = <<>>
    /\ pairs = <<>>
    /\ pre_match_vars = EmptyMap
    /\ result = NoResult
    /\ runs = 0
    /\ hostOps = 0
    /\ entry_env = <<>>
    /\ log = <<>>
    /\ matched = <<>>
    /\ program = <<>>
    /\ wf = 0
    /\ evaluated = 0
    /\ returned_value = Null

NextSort ==
    \/ \E w \in SortWorkflows : ExecuteWorkflow(w)
    \/ ReturnOk
    \/ BeginPhase
    \/ SetupCase
    \/ SortKey
    \/ SortPairs
    \/ SortPanic

SpecSort == InitSort /\ [][NextSort]_vars

(***************************************************************************)
(* The program specification: a host adds records, may set `threshold`,    *)
(* and makes one execute_workflows or execute_program call.                *)
(***************************************************************************)
NextProgram ==
    \/ \E i \in 1..Len(CaseTable) : AddCase(CaseTable[i])
    \/ \E nv \in HostVariables : SetVariable(nv[1], nv[2])
    \/ \E ws \in Programs : ExecuteWorkflows(ws)
    \/ \E fs \in ProgramFunctions, ws \in Programs : ExecuteProgram(fs, ws)
    \/ NextWorkflow
    \/ ReturnOk
    \/ BeginPhase
    \/ SetupCase
    \/ ScoreRule
    \/ FinishScoreCase
    \/ MatchRule
    \/ FinishMatchCase
    \/ FilterCase
    \/ EndPhase

SpecProgram == Init /\ [][NextProgram]_vars

(***************************************************************************)
(* The host specification: the facade calls that work on the environment,  *)
(* from the frame stacks a host can have brought the engine to.            *)
(***************************************************************************)
\* CoreEngine::get_variable
get_variable(e, name) == Lookup(e, name)

\* CoreEngine::get_variable_names: the keys of all frames, each once (the
\* sorted Vec is modelled by the set of its elements)
get_variable_names(e) == UNION { DOMAIN e[i] : i \in 1..Len(e) }

\* set_variable(name, value) calls of the host in the host specification
SetArguments ==
    { <<"threshold", Number(50)>>, <<"x", String(S_open)>>, <<"x", Bool(FALSE)>> }

\* a new engine; one and two exit_scope calls later; one enter_scope call
\* later; after reset; with `threshold` set; with `threshold` set and a scope
\* entered
HostEnvs ==
    { CoreEngine_new,
      ExitScope(CoreEngine_new),
      ExitScope(ExitScope(CoreEngine_new)),
      EnterScope(CoreEngine_new),
      Environment_new,
      Insert(CoreEngine_new, "threshold", Number(10)),
      EnterScope(Insert(CoreEngine_new, "threshold", Number(10))) }

InitHost ==
    /\ env \in HostEnvs
    /\ cases = <<>>
    /\ pc = "idle"
    /\ workflow = <<>>
    /\ phase = 0
    /\ input = <<>>
    /\ idx = 0
    /\ current = <<>>
    /\ rule = 0
    /\ processed = <<>>
    /\ pairs = <<>>
    /\ pre_match_vars = EmptyMap
    /\ result = NoResult
    /\ runs = 0
    /\ hostOps = 0
    /\ entry_env = <<>>
    /\ log = <<>>
    /\ matched = <<>>
    /\ program = <<>>
    /\ wf = 0
    /\ evaluated = 0
    /\ returned_value = Null

NextHost ==
    \/ HostEnterScope
    \/ HostExitScope
    \/ \E nv \in SetArguments : SetVariable(nv[1], nv[2])
    \/ \E f \in HostFunctions : RegisterFunction(f)
    \/ Reset

SpecHost == InitHost /\ [][NextHost]_vars

(***************************************************************************)
(* The expression specification: evaluate_expression calls of a host, in   *)
(* the frame stacks a host can have brought the engine to.                 *)
(***************************************************************************)
DivZero == BinaryOp(ExprNumber(1), "Div", ExprNumber(0))

ExprTable ==
    << \* 1: double(priority)
       FunctionCall("double", << Ident("priority") >>),
       \* 2: double()
       FunctionCall("double", << >>),
       \* 3: double(1, 2)
       FunctionCall("double", << ExprNumber(1), ExprNumber(2) >>),
       \* 4: double("open"): the body fails
       FunctionCall("double", << ExprString(S_open) >>),
       \* 5: bump(4)
       FunctionCall("bump", << ExprNumber(4) >>),
       \* 6: bump(missing): an argument fails
       FunctionCall("bump", << Ident("missing") >>),
       \* 7: adjust(7)
       FunctionCall("adjust", << ExprNumber(7) >>),
       \* 8: adjust("open"): the first statement of the block fails
       FunctionCall("adjust", << ExprString(S_open) >>),
       \* 9: adjust(double(1)) + bump(1)
       BinaryOp(FunctionCall("adjust", << FunctionCall("double", << ExprNumber(1) >>) >>),
                "Add", FunctionCall("bump", << ExprNumber(1) >>)),
       \* 10: false and 1 / 0
       BinaryOp(ExprBool(FALSE), "And", DivZero),
       \* 11: true or 1 / 0
       BinaryOp(ExprBool(TRUE), "Or", DivZero),
       \* 12: missing and 1 / 0
       BinaryOp(Ident("missing"), "And", DivZero),
       \* 13: 0 and 5
       BinaryOp(ExprNumber(0), "And", ExprNumber(5)),
       \* 14: 3 and 5
       BinaryOp(ExprNumber(3), "And", ExprNumber(5)),
       \* 15: "" or 7
       BinaryOp(ExprString(S_empty), "Or", ExprNumber(7)),
       \* 16: 3 or 7
       BinaryOp(ExprNumber(3), "Or", ExprNumber(7)),
       \* 17: "open" and false
       BinaryOp(ExprString(S_open), "And", ExprBool(FALSE)),
       \* 18: x or double(2)
       BinaryOp(Ident("x"), "Or", FunctionCall("double", << ExprNumber(2) >>)),
       \* 19: len([1, 2])
       FunctionCall("len", << ExprList(<< ExprNumber(1), ExprNumber(2) >>) >>),
       \* 20: max(priority, score)
       FunctionCall("max", << Ident("priority"), Ident("score") >>),
       \* 21: contains(status, "pen")
       FunctionCall("contains", << Ident("status"), ExprString(<<112, 101, 110>>) >>),
       \* 22: case.priority
       MemberAccess("case", "priority"),
       \* 23: -x
       UnaryOp("Neg", Ident("x")),
       \* 24: status == "open"
       BinaryOp(Ident("status"), "Eq", ExprString(S_open)),
       \* 25: clamp(7)
       FunctionCall("clamp", << ExprNumber(7) >>),
       \* 26: clamp(3)
       FunctionCall("clamp", << ExprNumber(3) >>),
       \* 27: pick(7)
       FunctionCall("pick", << ExprNumber(7) >>),
       \* 28: pick(3)
       FunctionCall("pick", << ExprNumber(3) >>),
       \* 29: scaled(3)
       FunctionCall("scaled", << ExprNumber(3) >>),
       \* 30: contains([[1, 2], 3], [1, 2])
       FunctionCall("contains",
           << ExprList(<< ExprList(<< ExprNumber(1), ExprNumber(2) >>), ExprNumber(3) >>),
              ExprList(<< ExprNumber(1), ExprNumber(2) >>) >>),
       \* 31: [1, 2] in [[1, 2], 3]
       BinaryOp(ExprList(<< ExprNumber(1), ExprNumber(2) >>), "In",
                ExprList(<< ExprList(<< ExprNumber(1), ExprNumber(2) >>), ExprNumber(3) >>)),
       \* 32: contains([1, "open", priority], priority)
       FunctionCall("contains",
           << ExprList(<< ExprNumber(1), ExprString(S_open), Ident("priority") >>),
              Ident("priority") >>),
       \* 33: priority in [1, "open", priority]
       BinaryOp(Ident("priority"), "In",
                ExprList(<< ExprNumber(1), ExprString(S_open), Ident("priority") >>)),
       \* 34: agent.id
       MemberAccess("agent", "id"),
       \* 35: urgent.priority
       MemberAccess("urgent", "priority"),
       \* 36: urgent.owner
       MemberAccess("urgent", "owner"),
       \* 37: x.id
       MemberAccess("x", "id"),
       \* 38: case.owner
       MemberAccess("case", "owner"),
       \* 39: case.customer
       MemberAccess("case", "customer") >>

AllFunctions == << 1, 2, 3, 4, 5, 6 >>

\* frame stacks a host can reach: a new engine with the functions registered;
\* the same inside a record's scope; the empty stack (exit_scope twice); a
\* reset engine with the functions registered; a host scope that binds x; an
\* engine where `double` was set to a number; a record's scope in an engine
\* where the host set `case` to a number; an engine where the host set
\* `agent` to a map and a match left the bucket `urgent`; a record's scope in
\* an engine where a match left a bucket named `case`
ExprEnvs ==
    LET registered == register_functions(CoreEngine_new, AllFunctions)
    IN  { registered,
          setup_case_context(registered, CaseTable[1]),
          setup_case_context(registered, CaseTable[2]),
          ExitScope(ExitScope(CoreEngine_new)),
          register_functions(Environment_new, AllFunctions),
          Insert(EnterScope(registered), "x", Number(7)),
          Insert(registered, "double", Number(3)),
          CoreEngine_new,
          setup_case_context(Insert(registered, "case", Number(1)), CaseTable[1]),
          Insert(Insert(registered, "agent", Map([id |-> Number(7)])),
                 "urgent", Map(case_to_map(CaseTable[1]))),
          setup_case_context(Insert(registered, "case", Map(case_to_map(CaseTable[2]))),
                             CaseTable[1]) }

\* CoreEngine::evaluate_expression
EvaluateExpression(e) ==
    /\ pc = "idle"
    /\ hostOps < MaxHostOps
    /\ LET r == evaluate_expr(env, ExprTable[e])
       IN  /\ env' = r.env
           /\ result' = IF r.ok THEN ReturnedOk ELSE ReturnedErr(r.err)
           /\ returned_value' = r.v
    /\ evaluated' = e
    /\ entry_env' = env
    /\ hostOps' = hostOps + 1
    /\ UNCHANGED << cases, pc, workflow, phase, input, idx, current, rule,
                    processed, pairs, pre_match_vars, runs, log, matched,
                    program, wf >>

InitExpr ==
    /\ env \in ExprEnvs
    /\ cases = <<>>
    /\ pc = "idle"
    /\ workflow = <<>>
    /\ phase = 0
    /\ input = <<>>
    /\ idx = 0
    /\ current = <<>>
    /\ rule = 0
    /\ processed = <<>>
    /\ pairs = <<>>
    /\ pre_match_vars = EmptyMap
    /\ result = NoResult
    /\ runs = 0
    /\ hostOps = 0
    /\ entry_env = <<>>
    /\ log = <<>>
    /\ matched = <<>>
    /\ program = <<>>
    /\ wf = 0
    /\ evaluated = 0
    /\ returned_value = Null

NextExpr == \E e \in 1..Len(ExprTable) : EvaluateExpression(e)

SpecExpr == InitExpr /\ [][NextExpr]_vars

(***************************************************************************)
(* Properties.                                                             *)
(***************************************************************************)
PhaseKinds(w) == { PhaseTable[w[i]].t : i \in 1..Len(w) }

\* the scope a record's rules start in, seen from inside the record's scope
SetupEnv == setup_case_context(ExitScope(env), input[idx])

InPhase(kind) ==
    /\ pc \in {"case", "rules"}
    /\ phase <= Len(workflow)
    /\ CurrentPhase.t = kind

\* C1: scope balance. Whenever execute_workflow has returned, with Ok or with
\* Err, the frame stack is as deep as it was when execute_workflow was entered.
C1_ScopeBalance ==
    (pc = "idle" /\ result.returned) => Len(env) = Len(entry_env)

\* the part of C1 the code keeps: a run that returns Ok leaves the depth as
\* it found it
C1_BalancedOnOk ==
    (pc = "idle" /\ result.returned /\ result.ok) => Len(env) = Len(entry_env)

\* C2: a successful run of a workflow without a Filter phase stores exactly
\* as many records as the engine held when the run began.
C2_CountPreserved ==
    [][ (pc = "phase" /\ pc' = "idle" /\ result'.returned /\ result'.ok
         /\ "Filter" \notin PhaseKinds(workflow))
        => Len(cases') = Len(cases) ]_vars

C2_Witness ==
    /\ pc = "idle"
    /\ result.returned /\ result.ok
    /\ Len(workflow) = 2
    /\ PhaseKinds(workflow) = {"Match", "Sort"}
    /\ Len(cases) = 2

\* C3: in a Filter phase the records kept so far are exactly the records seen
\* so far whose condition is truthy in their own scope, in input order and
\* unchanged; for `status == "open"` these are the open records.
C3_Kept(case) ==
    LET r == evaluate_expr(setup_case_context(env, case), CurrentPhase.condition)
    IN  r.ok /\ is_truthy(r.v)

C3_IsOpen(case) == case.status = S_open

C3_FilterSubsequence ==
    (pc = "case" /\ InPhase("Filter")) =>
        /\ processed = SelectSeq(SubSeq(input, 1, idx - 1), C3_Kept)
        /\ workflow[phase] = 5 =>
              processed = SelectSeq(SubSeq(input, 1, idx - 1), C3_IsOpen)

\* a filter has seen two records: it dropped the first and kept the second
C3_Witness ==
    /\ pc = "case" /\ InPhase("Filter")
    /\ idx > Len(input)
    /\ Len(input) = 2
    /\ Len(processed) = 1
    /\ processed[1] = input[2]

\* C4: in a Score phase the rules of a record are evaluated in declaration
\* order without early exit, every truthy rule's action is executed, and the
\* final score is what the fired assignments give in that order.
C4_AllRulesInOrder ==
    (pc = "rules" /\ InPhase("Score")) =>
        /\ Len(log) = rule - 1
        /\ \A i \in 1..Len(log) :
              /\ log[i].rule = i
              /\ log[i].acted = log[i].truthy
              /\ (workflow[phase] = 1 /\ i = 1) =>
                    log[i].truthy = (input[idx].priority > 3)
              /\ (workflow[phase] = 1 /\ i = 2) =>
                    log[i].truthy = (input[idx].status = S_open)
        /\ (workflow[phase] = 1 /\ rule > 3 /\ log[1].truthy /\ log[2].truthy)
              => current[1].score = input[idx].priority * 10 + 5

\* the second rule of phase 1 fired after the first one had fired
C4_Witness ==
    /\ pc = "rules" /\ InPhase("Score")
    /\ workflow[phase] = 1
    /\ rule > 3
    /\ log[1].acted /\ log[2].acted
    /\ current[1].score = 105

\* C5: score write-through. In a Score phase, after an executed AssignScore
\* action and once the last rule of the record has been processed, the
\* environment's `score` is the record's score.
C5_WriteThrough ==
    (/\ pc = "rules" /\ InPhase("Score")
     /\ \/ rule > Len(CurrentPhase.rules)
        \/ /\ log # <<>>
           /\ log[Len(log)].acted
           /\ log[Len(log)].action.t = "AssignScore")
    => Lookup(env, "score") = Some(Number(current[1].score))

\* the part of C5 the code keeps: straight after an AssignScore action
C5_AfterAssignScore ==
    (/\ pc = "rules" /\ InPhase("Score")
     /\ log # <<>>
     /\ log[Len(log)].acted
     /\ log[Len(log)].action.t = "AssignScore")
    => Lookup(env, "score") = Some(Number(current[1].score))

\* C6: in a Match phase the rules of a record are evaluated in order up to
\* the first truthy one; its action is the only one executed, no rule after
\* it is evaluated, and a record no rule is truthy for gets no bucket.
C6_Truthy(j) ==
    LET r == evaluate_expr(SetupEnv, CurrentPhase.rules[j].condition)
    IN  r.ok /\ is_truthy(r.v)

C6_FirstTruthyOnly ==
    (pc = "rules" /\ InPhase("Match")) =>
        /\ \A i \in 1..Len(log) :
              /\ log[i].rule = i
              /\ log[i].acted = log[i].truthy
              /\ log[i].truthy = C6_Truthy(i)
              /\ log[i].truthy => i = Len(log)
        /\ rule > Len(CurrentPhase.rules) =>
              \/ /\ log # <<>>
                 /\ log[Len(log)].acted
                 /\ get_persistent_variables(env) =
                       MapInsert(EmptyMap, log[Len(log)].action.var_name,
                                 Map(case_to_map(input[idx])))
                    \/ log[Len(log)].action.var_name \in CaseProperties
              \/ /\ Len(log) = Len(CurrentPhase.rules)
                 /\ \A i \in 1..Len(log) : ~log[i].truthy
                 /\ env = SetupEnv

\* the first rule of phase 4 fired, the two after it were not evaluated
C6_Witness ==
    /\ pc = "rules" /\ InPhase("Match")
    /\ rule > Len(CurrentPhase.rules)
    /\ Len(log) = 1
    /\ log[1].acted
    /\ C6_Truthy(2)

\* no rule of phase 4 was truthy for the record
C6_WitnessNone ==
    /\ pc = "rules" /\ InPhase("Match")
    /\ rule > Len(CurrentPhase.rules)
    /\ Len(log) = 3
    /\ \A i \in 1..3 : ~log[i].truthy

\* C7: after a successful run every bucket X a match action was executed for
\* is bound in the scope the run was entered in, to a Map whose `id` is the
\* id of the record the action was executed for.
C7_BucketSurvives ==
    (pc = "idle" /\ result.returned /\ result.ok) =>
        \A i \in 1..Len(matched) :
            /\ env # <<>>
            /\ matched[i].name \in DOMAIN env[Len(env)]
            /\ env[Len(env)][matched[i].name].k = "Map"
            /\ env[Len(env)][matched[i].name].v["id"] =
                  String(ToDecimal(matched[i].case.id))

(***************************************************************************)
(* Properties of the sort phase.  AfterSort holds when the phase that has  *)
(* just returned is a Sort: `input` is what it was given, `processed` what *)
(* it returned.                                                            *)
(***************************************************************************)
SortedPhase == PhaseTable[workflow[phase - 1]]

AfterSort ==
    /\ pc = "phase"
    /\ phase > 1
    /\ SortedPhase.t = "Sort"

\* the sort key of a record, evaluated in the record's own scope
KeyOf(case, key) == evaluate_expr(setup_case_context(env, case), key).v

\* the one-to-one maps from the positions of `out` to those of `in` that
\* send every position to a position holding the same record
Matchings(out, in) ==
    { p \in [1..Len(out) -> 1..Len(in)] :
        /\ \A a, b \in 1..Len(out) : a # b => p[a] # p[b]
        /\ \A a \in 1..Len(out) : out[a] = in[p[a]] }

\* C8: a Sort phase returns a permutation of its input whose keys are
\* non-decreasing under the key comparison for asc and non-increasing for
\* desc.
C8_SortedPermutation ==
    AfterSort =>
        /\ Len(processed) = Len(input)
        /\ Matchings(processed, input) # {}
        /\ \A i, j \in 1..Len(processed) :
              i < j => sort_cmp(SortedPhase.order,
                                KeyOf(processed[i], SortedPhase.key),
                                KeyOf(processed[j], SortedPhase.key)) <= 0

AscThenDesc ==
    /\ pc = "phase"
    /\ phase = 3
    /\ Len(workflow) = 2
    /\ PhaseTable[workflow[1]].t = "Sort"
    /\ PhaseTable[workflow[2]].t = "Sort"
    /\ PhaseTable[workflow[1]].key = PhaseTable[workflow[2]].key
    /\ PhaseTable[workflow[1]].order = "Asc"
    /\ PhaseTable[workflow[2]].order = "Desc"

C10_DescReversesAsc ==
    AscThenDesc =>
        /\ Len(processed) = Len(input)
        /\ Matchings(processed, input) # {}
        /\ \A i \in 1..Len(processed) :
              compare_values(KeyOf(processed[i], SortedPhase.key),
                             KeyOf(input[Len(input) + 1 - i], SortedPhase.key)) = 0

(***************************************************************************)
(* The states the violated properties fail in.                             *)
(***************************************************************************)
\* a run returned Err out of a record's scope: the scope is still there
C1_LeakedScope ==
    /\ pc = "idle"
    /\ result.returned /\ ~result.ok
    /\ Len(env) = Len(entry_env) + 1
    /\ "score" \in DOMAIN env[Len(env)]

\* an Assign action named `score`: the record's last rule is done, the
\* record's score is 7 and the environment's is `true`
C5_ScoreShadowed ==
    /\ pc = "rules" /\ InPhase("Score")
    /\ rule > Len(CurrentPhase.rules)
    /\ current[1].score = 7
    /\ Lookup(env, "score") = Some(Bool(TRUE))

\* `assign to priority` was executed and the run returned Ok, yet the scope
\* the run was entered in binds nothing new
C7_BucketDropped ==
    /\ pc = "idle"
    /\ result.returned /\ result.ok
    /\ Len(matched) = 1
    /\ matched[1].name = "priority"
    /\ env = entry_env

\* an ascending sort returned the keys 10, "10", 9 in this order
C8_Unsorted ==
    /\ AfterSort
    /\ SortedPhase.order = "Asc"
    /\ Len(processed) = 3
    /\ KeyOf(processed[1], SortedPhase.key) = Number(10)
    /\ KeyOf(processed[2], SortedPhase.key) = String(S_10)
    /\ KeyOf(processed[3], SortedPhase.key) = Number(9)

C10_NotReversed ==
    /\ AscThenDesc
    /\ Len(input) = 3
    /\ KeyOf(input[1], SortedPhase.key) = Number(10)
    /\ KeyOf(input[2], SortedPhase.key) = String(S_10)
    /\ KeyOf(input[3], SortedPhase.key) = Number(9)
    /\ processed = << input[1], input[3], input[2] >>

(***************************************************************************)
(* Errors.                                                                 *)
(***************************************************************************)
\* the error of the evaluation the run is about to make, if it fails
StepError ==
    IF pc # "rules" THEN None
    ELSE CASE CurrentPhase.t \in {"Score", "Match"} ->
                IF rule > Len(CurrentPhase.rules) THEN None
                ELSE LET c == evaluate_expr(env, CurrentPhase.rules[rule].condition)
                     IN  IF ~c.ok THEN Some(c.err)
                         ELSE IF CurrentPhase.t = "Score" /\ is_truthy(c.v)
                         THEN LET d == execute_action(c.env, CurrentPhase.rules[rule].action,
                                                      current[1])
                              IN  IF d.ok THEN None ELSE Some(d.err)
                         ELSE None
           [] CurrentPhase.t = "Filter" ->
                LET c == evaluate_expr(env, CurrentPhase.condition)
                IN  IF c.ok THEN None ELSE Some(c.err)
           [] CurrentPhase.t = "Sort" ->
                LET c == evaluate_expr(env, CurrentPhase.key)
                IN  IF c.ok THEN None ELSE Some(c.err)

\* C11: errors are fatal. A failing evaluation ends the call at once with
\* that error: no further rule, record or phase is processed, the records
\* stay as they were, and the workflow loop of execute_workflows and
\* execute_program moves on only from a workflow that ran all its phases.
C11_ErrorsAbort ==
    [][ /\ StepError.some =>
             /\ pc' = "idle"
             /\ result'.returned /\ ~result'.ok
             /\ result'.err = StepError.v
             /\ cases' = cases
             /\ wf' = wf
             /\ program' = program
        /\ (pc # "idle" /\ wf' # wf) =>
             /\ ~StepError.some
             /\ pc = "phase"
             /\ phase > Len(workflow)
             /\ wf' = wf + 1 ]_vars

\* the first of two workflows failed on an undefined identifier: the call
\* returned that error and the second workflow was never entered
C11_Witness ==
    /\ pc = "idle"
    /\ result.returned /\ ~result.ok
    /\ result.err = "Undefined variable: threshold"
    /\ Len(program) = 2
    /\ wf = 1
    /\ cases # <<>>

(***************************************************************************)
(* Properties of the expression evaluator.  After an evaluate_expression   *)
(* call, entry_env is the frame stack the call began in.                   *)
(***************************************************************************)
Evaluated == evaluated # 0 /\ result.returned

\* the function the call expression e names, looked up where the call began
Callee(e) == Lookup(entry_env, ExprTable[e].name)

CallsUserFunction(e) ==
    /\ ExprTable[e].t = "FunctionCall"
    /\ Callee(e).some
    /\ Callee(e).v.k = "UserFunction"

\* C12: a user-function call leaves the frame stack as deep as it found it,
\* whether the body returned a value, the body failed or the argument count
\* was wrong; a wrong argument count fails with "Function '<name>' expects N
\* arguments, got M" and the body is not run.
C12_CallBalanced ==
    (Evaluated /\ CallsUserFunction(evaluated)) =>
        /\ Len(env) = Len(entry_env)
        /\ evaluated = 2 =>
              /\ ~result.ok
              /\ result.err = "Function 'double' expects 1 arguments, got 0"
              /\ env = entry_env
        /\ evaluated = 3 =>
              /\ ~result.ok
              /\ result.err = "Function 'double' expects 1 arguments, got 2"
              /\ env = entry_env
        /\ evaluated = 4 => ~result.ok /\ result.err = "Cannot multiply non-numbers"
        /\ evaluated = 5 => result.ok /\ returned_value = Number(5)

\* double("open") was called inside a record's scope: the body failed and
\* the scope of the call is gone
C12_Witness ==
    /\ Evaluated /\ CallsUserFunction(evaluated)
    /\ evaluated = 4
    /\ ~result.ok
    /\ Len(env) = 3
    /\ Lookup(env, "status") = Some(String(S_open))

\* C13: And and Or evaluate both operands, the left one first, so an error
\* in either operand is the result; otherwise And returns the right value if
\* the left is truthy and the left value if not, Or the left value if it is
\* truthy and the right value if not, uncoerced.
C13_Expected ==
    << [e |-> 10, ok |-> FALSE, err |-> "Division by zero", v |-> Null],
       [e |-> 11, ok |-> FALSE, err |-> "Division by zero", v |-> Null],
       [e |-> 12, ok |-> FALSE, err |-> "Undefined variable: missing", v |-> Null],
       [e |-> 13, ok |-> TRUE, err |-> "", v |-> Number(0)],
       [e |-> 14, ok |-> TRUE, err |-> "", v |-> Number(5)],
       [e |-> 15, ok |-> TRUE, err |-> "", v |-> Number(7)],
       [e |-> 16, ok |-> TRUE, err |-> "", v |-> Number(3)],
       [e |-> 17, ok |-> TRUE, err |-> "", v |-> Bool(FALSE)] >>

C13_EagerAndOr ==
    (/\ Evaluated
     /\ ExprTable[evaluated].t = "BinaryOp"
     /\ ExprTable[evaluated].op \in {"And", "Or"}) =>
      /\ \A i \in 1..Len(C13_Expected) :
            C13_Expected[i].e = evaluated =>
                /\ result.ok = C13_Expected[i].ok
                /\ result.err = C13_Expected[i].err
                /\ returned_value = C13_Expected[i].v
      /\ LET l == evaluate_expr(entry_env, ExprTable[evaluated].left)
            r == evaluate_expr(entry_env, ExprTable[evaluated].right)
        IN  IF ~l.ok THEN ~result.ok /\ result.err = l.err
            ELSE IF ~r.ok THEN ~result.ok /\ result.err = r.err
            ELSE /\ result.ok
                 /\ returned_value =
                       IF ExprTable[evaluated].op = "And"
                       THEN (IF is_truthy(l.v) THEN r.v ELSE l.v)
                       ELSE (IF is_truthy(l.v) THEN l.v ELSE r.v)

\* `false and 1 / 0` failed with the error of its right operand
C13_Witness ==
    /\ Evaluated
    /\ evaluated = 10
    /\ ~result.ok
    /\ result.err = "Division by zero"

\* C20: expression evaluation is pure: the call leaves the frame stack
\* exactly as it found it, on success and on failure, and a second evaluation
\* in that environment returns the same result.
C20_Pure ==
    Evaluated =>
        /\ env = entry_env
        /\ LET again == evaluate_expr(env, ExprTable[evaluated])
           IN  /\ again.ok = result.ok
               /\ again.err = result.err
               /\ again.v = returned_value
               /\ again.env = env

\* a block-bodied function with assignments and an if returned a value from
\* inside a record's scope, and the scope is as it was
C20_Witness ==
    /\ Evaluated
    /\ evaluated = 9
    /\ result.ok
    /\ returned_value = Number(2)
    /\ Len(env) = 3
    /\ env = entry_env

(***************************************************************************)
(* Properties of the environment and of the facade calls that work on it.  *)
(***************************************************************************)
BuiltinsBound(e) ==
    \A name \in BuiltinNames : Lookup(e, name) = Some(BuiltinFunction(name))

\* an exit_scope call that pops a frame binding a built-in: more pops than
\* pushes
PopsBuiltins ==
    /\ HostExitScope
    /\ env # <<>>
    /\ \E name \in BuiltinNames : name \in DOMAIN env[Len(env)]

\* C14: built-ins stay reachable. No step other than an exit_scope that pops
\* the frame holding them (and none of the model's calls rebinds them) takes
\* a state where len, max, min and contains resolve to the built-ins to one
\* where they do not; reset is such a step.
C14_BuiltinsReachable ==
    [][ (BuiltinsBound(env) /\ ~PopsBuiltins) => BuiltinsBound(env') ]_vars

\* after reset no frame binds `len`
C14_LostByReset ==
    /\ pc = "idle"
    /\ hostOps = 1
    /\ env = Environment_new
    /\ Lookup(env, "len") = None

UserFunctionsBound(e) ==
    { f \in 1..Len(FunctionTable) :
        Lookup(e, FunctionTable[f].name) = Some(UserFunction(f)) }

\* C15: registered functions live in the root frame: leaving a scope the
\* host entered on top of the two frames of a new engine loses no function.
C15_RegisteredInRoot ==
    [][ (HostExitScope /\ Len(env) > 2)
        => UserFunctionsBound(env) \subseteq UserFunctionsBound(env') ]_vars

\* C17: host variable round-trip: straight after set_variable(n, v),
\* get_variable(n) is v and get_variable_names() contains n, whatever the
\* frame stack was.
C17_RoundTrip ==
    [][ \A nv \in SetArguments :
          SetVariable(nv[1], nv[2]) =>
              /\ get_variable(env', nv[1]) = Some(nv[2])
              /\ nv[1] \in get_variable_names(env') ]_vars

\* the frame stack is empty (exit_scope was called twice on a new engine)
\* and a facade call has been made on it: set_variable found no frame
C17_NoFrame ==
    /\ pc = "idle"
    /\ env = <<>>
    /\ hostOps = 1
    /\ get_variable(env, "x") = None
    /\ get_variable_names(env) = {}

(***************************************************************************)
(* Properties of the records a run hands from phase to phase.              *)
(***************************************************************************)
\* the fields of a record other than its score
Identity(case) == [case EXCEPT !.score = 0]

\* the records a run holds: those pushed by the phase under way, the one
\* in its scope, and those paired with their sort keys
InFlight ==
    Range(processed) \cup Range(current) \cup { pairs[i].case : i \in 1..Len(pairs) }

\* the ways to pair every record of `out` with a record of `in` of its own,
\* equal to it in all fields but the score
Origins(out, in) ==
    { f \in [1..Len(out) -> 1..Len(in)] :
        /\ \A i, j \in 1..Len(out) : f[i] = f[j] => i = j
        /\ \A i \in 1..Len(out) : Identity(out[i]) = Identity(in[f[i]]) }

\* C16: a run writes only `score`. While a run is under way every record it
\* holds equals a record of the engine in id, category, status, priority and
\* customer; between phases, and so when the run returns, each record of
\* the output has an input record of its own; and inside a Match, Filter or
\* Sort phase every record held is a record the phase received, score
\* included.
C16_OnlyScoreWritten ==
    /\ pc # "idle" =>
          \A r \in InFlight : \E i \in 1..Len(cases) : Identity(r) = Identity(cases[i])
    /\ pc = "phase" => Origins(processed, cases) # {}
    /\ \A kind \in {"Match", "Filter", "Sort"} :
          InPhase(kind) => InFlight \subseteq Range(input)

\* a run of a Score phase and a phase of another kind is about to return two
\* records, one of them with a new score
C16_Witness ==
    /\ pc = "phase"
    /\ phase > Len(workflow)
    /\ "Score" \in PhaseKinds(workflow)
    /\ PhaseKinds(workflow) # {"Score"}
    /\ Len(processed) = 2
    /\ \E f \in Origins(processed, cases) :
          \E i \in 1..Len(processed) : processed[i].score # cases[f[i]].score

(***************************************************************************)
(* Properties of the frame stack.                                          *)
(***************************************************************************)
LookupNames == {"threshold", "x", "len", "double", "bump", "missing"}

\* the frames of `e` that bind `name`
FramesWith(e, name) == { i \in 1..Len(e) : name \in DOMAIN e[i] }

\* C18: lexical lookup with shadowing. On every frame stack a host reaches:
\* lookup gives the binding of the innermost frame that has the name, None
\* when no frame has it; insert binds the name in the innermost frame and
\* changes nothing else; and enter_scope, inserts, exit_scope gives back the
\* stack as it was, so earlier bindings are restored and new names unbound.
C18_LexicalScopes ==
    /\ \A name \in LookupNames :
          Lookup(env, name) =
              IF FramesWith(env, name) = {} THEN None
              ELSE LET i == CHOOSE k \in FramesWith(env, name) :
                                \A l \in FramesWith(env, name) : l <= k
                   IN  Some(env[i][name])
    /\ \A nv \in SetArguments :
          LET after == Insert(env, nv[1], nv[2])
              top == Len(env)
          IN  env # <<>> =>
                /\ Len(after) = top
                /\ \A i \in 1..(top - 1) : after[i] = env[i]
                /\ DOMAIN after[top] = DOMAIN env[top] \cup {nv[1]}
                /\ after[top][nv[1]] = nv[2]
                /\ \A name \in DOMAIN env[top] \ {nv[1]} : after[top][name] = env[top][name]
    /\ \A nv1, nv2 \in SetArguments :
          LET inner == Insert(Insert(EnterScope(env), nv1[1], nv1[2]), nv2[1], nv2[2])
          IN  /\ Lookup(inner, nv2[1]) = Some(nv2[2])
              /\ ExitScope(inner) = env
              /\ \A name \in LookupNames : Lookup(ExitScope(inner), name) = Lookup(env, name)

\* `threshold` is bound to 10 in the second frame and to 50 in a scope the
\* host entered on top of it: the lookup gives 50
C18_Witness ==
    /\ Len(env) = 3
    /\ FramesWith(env, "threshold") = {2, 3}
    /\ env[2]["threshold"] = Number(10)
    /\ env[3]["threshold"] = Number(50)
    /\ Lookup(env, "threshold") = Some(Number(50))
    /\ hostOps = 2

(***************************************************************************)
(* Properties of the order of the phases.                                  *)
(***************************************************************************)
\* the score PhaseTable[1] leaves a record with
Phase1Score(case) ==
    (IF case.priority > 3 THEN case.priority * 10 ELSE case.score)
    + (IF case.status = S_open THEN 5 ELSE 0)

IsOpen(case) == case.status = S_open

\* C19: phases run in declaration order and each receives the output of the
\* one before. A run starts at phase 1 with the engine's records; a phase
\* starts on the records the phase before it produced; the phase number
\* moves only from a finished phase to the next one; a run returns Ok only
\* after the last phase, with its output. So a phase after
\* `filter { when status == "open" }` receives exactly the open records, and
\* a phase after the score phase PhaseTable[1] receives the records with
\* the scores that phase gave them.
C19_PhaseOrder ==
    [][ /\ (pc = "idle" /\ pc' = "phase") => (phase' = 1 /\ processed' = cases)
        /\ (pc = "phase" /\ pc' = "case") =>
              (phase' = phase /\ phase <= Len(workflow) /\ input' = processed)
        /\ (pc # "idle" /\ pc' # "idle") =>
              phase' = IF pc = "case" /\ pc' = "phase" THEN phase + 1 ELSE phase
        /\ (pc # "idle" /\ pc' = "idle" /\ result'.ok) =>
              (phase = Len(workflow) + 1 /\ cases' = processed)
        /\ (pc \in {"case", "rules"} /\ phase = 2 /\ workflow[1] = 5) =>
              input = SelectSeq(cases, IsOpen)
        /\ (pc \in {"case", "rules"} /\ phase = 2 /\ workflow[1] = 1) =>
              input = [i \in 1..Len(cases) |->
                          [cases[i] EXCEPT !.score = Phase1Score(cases[i])]]
      ]_vars

\* `score {..} filter { when score > threshold }` with threshold = 50 has run
\* on two records of score 0: the filter kept a record for the score the
\* score phase gave it
C19_Witness ==
    /\ pc = "phase"
    /\ phase = 3
    /\ workflow = << 1, 6 >>
    /\ Len(cases) = 2
    /\ \A i \in 1..2 : cases[i].score = 0
    /\ Len(processed) >= 1
    /\ processed[1].score > 50

(***************************************************************************)
(* Properties of the environment a run leaves behind.                      *)
(***************************************************************************)
RecordNames == {"id", "category", "status", "priority", "score", "customer"}

\* C21: the per-record scope is popped before an error is surfaced. When a
\* run has returned Err, the frame stack is as deep as at entry and each of
\* id, category, status, priority, score and customer resolves as it did at
\* entry: no binding of the failing record is visible.
C21_PoppedBeforeError ==
    (pc = "idle" /\ result.returned /\ ~result.ok) =>
        /\ Len(env) = Len(entry_env)
        /\ \A name \in RecordNames : Lookup(env, name) = Lookup(entry_env, name)

\* a run returned Err and the failing record's id, unbound at entry, is
\* still bound
C21_RecordVisible ==
    /\ pc = "idle"
    /\ result.returned /\ ~result.ok
    /\ Lookup(entry_env, "id") = None
    /\ Lookup(env, "id") = Some(Number(1))
    /\ Lookup(env, "status") = Some(String(S_open))

(***************************************************************************)
(* Properties of block-bodied user functions.                              *)
(***************************************************************************)
\* the call expression e names the function FunctionTable[f]
Calls(e, f) == CallsUserFunction(e) /\ Callee(e).v = UserFunction(f)

\* C22: Return(e) ends the function call with eval(e), also inside the
\* block of an If. clamp(7) returns at `return 5` and clamp(3) at
\* `return x`; pick(7) returns 1 and pick(3) returns 2, never the value of
\* the statement after the If; bump(4) returns at its only Return.
C22_ReturnEndsCall ==
    Evaluated =>
        /\ (evaluated = 25 /\ Calls(25, 4)) => (result.ok /\ returned_value = Number(5))
        /\ (evaluated = 26 /\ Calls(26, 4)) => (result.ok /\ returned_value = Number(3))
        /\ (evaluated = 27 /\ Calls(27, 5)) => (result.ok /\ returned_value = Number(1))
        /\ (evaluated = 28 /\ Calls(28, 5)) => (result.ok /\ returned_value = Number(2))
        /\ (evaluated = 5 /\ Calls(5, 2)) => (result.ok /\ returned_value = Number(5))

\* clamp(7) ran `return 5` inside the If and then `return x`: the call
\* returned 7
C22_ReturnIgnored ==
    /\ Evaluated
    /\ evaluated = 25 /\ Calls(25, 4)
    /\ result.ok
    /\ returned_value = Number(7)

\* names a call can bind or read
CallNames ==
    {"x", "y", "score", "priority", "status", "threshold", "double", "clamp", "missing"}

\* C23: parameters and let/assign targets exist only inside the call. After
\* a user-function call, successful or not, every name resolves as before
\* it, also `score`, `priority`, `x` and `y` when the function has them as
\* a parameter or assigns them; inside the body the parameter shadows the
\* outer binding (bump(4) is 5 where score is 0, clamp(3) is 3 where x
\* is 7) and other outer bindings are readable (scaled(3) is three times
\* the caller's priority).
C23_CallLocals ==
    (Evaluated /\ CallsUserFunction(evaluated)) =>
        /\ \A name \in CallNames : Lookup(env, name) = Lookup(entry_env, name)
        /\ (evaluated = 5 /\ Calls(5, 2)) => returned_value = Number(5)
        /\ (evaluated = 26 /\ Calls(26, 4)) => returned_value = Number(3)
        /\ (evaluated = 29 /\ Calls(29, 6)) =>
              LET priority == Lookup(entry_env, "priority")
              IN  IF priority.some
                  THEN result.ok /\ returned_value = Number(3 * priority.v.v)
                  ELSE ~result.ok /\ result.err = "Undefined variable: priority"

\* bump(4) was called inside the scope of a record of score 0 and priority
\* 10: it returned 5 and score and priority are what they were
C23_Witness ==
    /\ Evaluated
    /\ evaluated = 5 /\ Calls(5, 2)
    /\ result.ok /\ returned_value = Number(5)
    /\ Lookup(env, "score") = Some(Number(0))
    /\ Lookup(env, "priority") = Some(Number(10))

(***************************************************************************)
(* Properties of membership.                                               *)
(***************************************************************************)
\* values and lists contains() and `in` are compared on
MemberValues ==
    { Number(1), Number(2), String(S_open), Bool(TRUE), Null,
      List(<< Number(1) >>), List(<< >>) }

MemberLists ==
    { List(<< >>) } \cup { List(<< v >>) : v \in MemberValues }
    \cup { List(<< v, w >>) : v, w \in MemberValues }

\* C24: contains(c, v) on a list is membership by structural equality, the
\* same as `v in c`: the two calls of the fourth built-in return what the
\* `in` expressions on the same operands return, and on every list and
\* value of MemberLists and MemberValues contains_function and in_operation
\* agree.
C24_ContainsIsIn ==
    (/\ Evaluated
     /\ evaluated \in {30, 32}
     /\ Lookup(entry_env, "contains") = Some(BuiltinFunction("contains"))) =>
        /\ LET in == evaluate_expr(entry_env, ExprTable[evaluated + 1])
           IN  /\ result.ok = in.ok
               /\ returned_value = in.v
        /\ \A c \in MemberLists : \A v \in MemberValues :
              contains_function(<< c, v >>, env).v = in_operation(v, c, env).v

\* contains([[1, 2], 3], [1, 2]) returned false where [1, 2] in [[1, 2], 3]
\* is true
C24_NestedMissed ==
    /\ Evaluated
    /\ evaluated = 30
    /\ result.ok /\ returned_value = Bool(FALSE)
    /\ evaluate_expr(entry_env, ExprTable[31]).v = Bool(TRUE)

(***************************************************************************)
(* Properties of member access.                                            *)
(***************************************************************************)
\* the resolution order of obj.prop: a Map bound to obj; else the record
\* binding of prop when obj is `case`; else the Map bound to `agent`; else
\* an error
MemberExpected(e, object, property) ==
    LET obj == Lookup(e, object)
        field == Lookup(e, property)
    IN  IF obj.some /\ obj.v.k = "Map"
        THEN [ok |-> property \in DOMAIN obj.v.v,
              v |-> IF property \in DOMAIN obj.v.v THEN obj.v.v[property] ELSE Null]
        ELSE IF object = "case" /\ property \in CaseProperties
        THEN [ok |-> field.some, v |-> IF field.some THEN field.v ELSE Null]
        ELSE [ok |-> FALSE, v |-> Null]

\* C25: obj.prop is the entry of the Map bound to obj (an error if the key
\* is missing); otherwise, for obj = `case`, the per-record binding of prop,
\* also when a value that is no Map is bound to `case`; otherwise, for
\* obj = `agent`, the entry of the Map bound to `agent`; otherwise an error.
C25_MemberAccess ==
    (Evaluated /\ ExprTable[evaluated].t = "MemberAccess") =>
        LET expected == MemberExpected(entry_env, ExprTable[evaluated].object,
                                       ExprTable[evaluated].property)
        IN  /\ result.ok = expected.ok
            /\ returned_value = expected.v

\* case.priority was evaluated in the scope of a record of priority 10 with
\* `case` set to a number by the host: the access failed
C25_CaseShadowed ==
    /\ Evaluated
    /\ evaluated = 22
    /\ Lookup(entry_env, "case") = Some(Number(1))
    /\ Lookup(entry_env, "priority") = Some(Number(10))
    /\ ~result.ok
    /\ result.err = "Cannot access property 'priority' on object 'case' of this type"

(***************************************************************************)
(* Properties of the engine's records across calls.                        *)
(***************************************************************************)
\* C26: failed runs commit nothing. A call that returns Err leaves the
\* engine's records as they are; entering a call leaves them as they are;
\* and while a call is under way the records change only when a workflow
\* has run all its phases, to that workflow's output. So after a failed
\* execute_workflow the records are those before the call, and after a
\* failed execute_program they are the output of the last workflow that
\* completed.
C26_NothingCommitted ==
    [][ /\ (pc # "idle" /\ pc' = "idle" /\ ~result'.ok) => cases' = cases
        /\ (pc = "idle" /\ pc' # "idle") => cases' = cases
        /\ (pc # "idle" /\ cases' # cases) =>
              /\ pc = "phase"
              /\ phase > Len(workflow)
              /\ cases' = processed
              /\ pc' = "idle" => result'.ok ]_vars

\* `score {..} filter { when score > threshold }` failed in the filter on
\* two records, after the score phase had scored them: the engine's records
\* still have score 0
C26_Witness ==
    /\ pc = "idle"
    /\ result.returned /\ ~result.ok
    /\ result.err = "Undefined variable: threshold"
    /\ program = << << 1, 6 >> >>
    /\ Len(cases) = 2
    /\ \A i \in 1..2 : cases[i].score = 0

(***************************************************************************)
(* Properties of the comparison of sort keys.                              *)
(***************************************************************************)
\* the keys a sort phase has evaluated so far
Keys == { pairs[i].key : i \in 1..Len(pairs) }

\* C27: the comparison of sort keys is a total preorder: on the keys of
\* every sort phase, of one kind or mixed, compare(a, b) is the reverse of
\* compare(b, a), and compare(a, b) <= 0 and compare(b, c) <= 0 give
\* compare(a, c) <= 0.
C27_TotalPreorder ==
    \A a, b, c \in Keys :
        /\ compare_values(a, b) = -compare_values(b, a)
        /\ (compare_values(a, b) <= 0 /\ compare_values(b, c) <= 0)
              => compare_values(a, c) <= 0

\* a sort phase has the keys Number 10, String "10" and Number 9: 10 and
\* "10" compare equal, "10" is less than 9, and 10 is greater than 9
C27_MixedKeys ==
    /\ pc = "case"
    /\ Len(pairs) = 3
    /\ Keys = { Number(10), String(S_10), Number(9) }
    /\ compare_values(Number(10), String(S_10)) = 0
    /\ compare_values(String(S_10), Number(9)) = -1
    /\ compare_values(Number(10), Number(9)) = 1

(***************************************************************************)
(* Properties of the environment after a successful run.                   *)
(***************************************************************************)
\* the bucket names of the `assign to` actions that fired in the run
FiredTargets == { matched[i].name : i \in 1..Len(matched) }

\* C28: a successful run changes the environment only by adding match
\* buckets. When a run has returned Ok, the frame stack is as deep as at
\* entry, the frames below the innermost are as at entry, every name other
\* than the target of an `assign to` that fired resolves as at entry, and
\* id, category, status, priority, score and customer resolve as at entry:
\* the run leaves none of them bound.
C28_OnlyBuckets ==
    (pc = "idle" /\ result.returned /\ result.ok /\ evaluated = 0) =>
        /\ Len(env) = Len(entry_env)
        /\ \A i \in 1..(Len(env) - 1) : env[i] = entry_env[i]
        /\ \A name \in get_variable_names(env) \cup get_variable_names(entry_env) :
              name \in FiredTargets \/ Lookup(env, name) = Lookup(entry_env, name)
        /\ \A name \in RecordNames : Lookup(env, name) = Lookup(entry_env, name)

\* a run with a score phase and a match phase returned Ok with `threshold`
\* set by the host: the bucket `urgent` is bound, `threshold` is 50 as
\* before and no record name is bound
C28_Witness ==
    /\ pc = "idle"
    /\ result.returned /\ result.ok
    /\ PhaseKinds(workflow) = {"Score", "Match"}
    /\ "urgent" \in FiredTargets
    /\ Lookup(env, "urgent").some
    /\ ~Lookup(entry_env, "urgent").some
    /\ Lookup(env, "threshold") = Some(Number(50))
    /\ \A name \in RecordNames : Lookup(env, name) = None

(***************************************************************************)
(* Properties of the record's names inside its scope.                      *)
(***************************************************************************)
\* C29: inside every per-record scope, whatever ran before, `case.f`
\* evaluates to what the bare identifier `f` evaluates to, for f in id,
\* category, status, priority, score and customer.
C29_CaseIsRecord ==
    pc = "rules" =>
        \A f \in RecordNames :
            LET member == evaluate_expr(env, MemberAccess("case", f))
                bare == evaluate_expr(env, Ident(f))
            IN  /\ member.ok /\ bare.ok
                /\ member.v.k = bare.v.k
                /\ member.v = bare.v

\* the record of priority 2 is in its scope after a match filed the record
\* of priority 10 under `case`: case.priority is the string "10"
C29_CaseBucket ==
    /\ pc = "rules"
    /\ Lookup(env, "case").some
    /\ Lookup(env, "case").v.k = "Map"
    /\ Lookup(env, "priority") = Some(Number(2))
    /\ evaluate_expr(env, MemberAccess("case", "priority")).v = String(S_10)

(***************************************************************************)
(* Properties of the match buckets.                                        *)
(***************************************************************************)
\* the Map a bucket holds for a record: the fields as strings, customer only
\* when the record has one
Snapshot(case) ==
    LET keys == {"id", "category", "status", "priority", "score"}
                \cup (IF case.customer # <<>> THEN {"customer"} ELSE {})
    IN  [key \in keys |->
            CASE key = "id" -> String(ToDecimal(case.id))
              [] key = "category" -> String(case.category)
              [] key = "status" -> String(case.status)
              [] key = "priority" -> String(ToDecimal(case.priority))
              [] key = "score" -> String(ToDecimal(case.score))
              [] key = "customer" -> String(case.customer[1])]

\* the last record an `assign to name` fired for
LastMatched(name) ==
    LET last == CHOOSE i \in 1..Len(matched) :
                    /\ matched[i].name = name
                    /\ \A j \in 1..Len(matched) : matched[j].name = name => j <= i
    IN  matched[last].case

AfterMatch ==
    /\ pc = "phase"
    /\ phase > 1
    /\ PhaseTable[workflow[phase - 1]].t = "Match"

\* C30: after a Match phase every bucket name X that rules fired for is
\* bound to one Map, the snapshot of the last record a rule assigned to X,
\* with the record's fields as they were when the rule fired.
C30_LastSnapshot ==
    AfterMatch =>
        \A name \in FiredTargets :
            /\ Lookup(env, name).some
            /\ Lookup(env, name).v.k = "Map"
            /\ Lookup(env, name).v.v = Snapshot(LastMatched(name))

\* two records fired `assign to priority` in one Match phase: after the
\* phase `priority` is not bound
C30_NoBucket ==
    /\ AfterMatch
    /\ Len(matched) = 2
    /\ matched[1].name = "priority" /\ matched[2].name = "priority"
    /\ env # <<>>
    /\ Lookup(env, "priority") = None

====
